---------------------------- MODULE Spec2Model ----------------------------
(***************************************************************************)
(* Model of the instagram-post-scraper service.                            *)
(*                                                                         *)
(*   - BrowserService  (src/src/modules/scraper/browser.service.ts): the   *)
(*     pool of persistent browser contexts keyed by session directory.     *)
(*   - AccountsService (src/unnamed/part_002, lines 1100-1426): the        *)
(*     account rotation and health ledger, persisted as one JSON file.     *)
(*                                                                         *)
(* The service runs on one Node.js event loop.  A synchronous function is  *)
(* one atomic action.  An async function is cut at its awaits: the part up *)
(* to the first await runs with the call, and each continuation runs when  *)
(* the awaited promise settles.  Continuations of one promise are          *)
(* microtasks: they all run, in order, before the event loop takes the     *)
(* next task (a driver event, a timer, a new request).                     *)
(***************************************************************************)
EXTENDS Integers, Sequences, FiniteSets, TLC

(***************************************************************************)
(* Bounds of the model.                                                    *)
(***************************************************************************)
\* number of getBrowserForSession calls that may be in flight together
NCalls == 2
\* number of browser launches attempted in one behaviour
MaxLaunches == 2
\* cap of an account's usage counter
MaxUsage == 2
\* number of outcome reports in one behaviour
MaxReports == 3
\* the clock stops after this many half seconds
MaxTicks == 2
\* number of ledger calls made by requests served before the one observed
MaxEarlier == 2
\* number of tabs opened in one behaviour
MaxTabs == 2
\* number of callers of the admission control
NRequesters == 3
\* number of timeline payloads captured in one extraction
MaxPayloads == 2
\* the clock of the cache stops after this many TTLs
MaxTtls == 2

\* number of onModuleDestroy calls in one behaviour
MaxShutdowns == 2

\* session directories (one per account, AccountsService.getAccountSessionDir)
SessionDirs == {"sessions/instagram/bot_1", "sessions/instagram/bot_2"}

Calls      == 1..NCalls
\* the callers of closeBrowserForSession: the end of a batch (part_002 line
\* 366) and the background repair (part_002 line 701), one call in flight each
CloseCalls == {"processBatchWithBot", "repairSession"}
Instances  == 1..MaxLaunches
\* "no BrowserInstance": Map.get() returning undefined
NoInstance == 0
NoDir      == "none"

VARIABLES
    \* ---- BrowserService -------------------------------------------------
    browserInstances,    \* Map<string, BrowserInstance>       (line 22)
    launchingInstances,  \* Map<string, Promise<BrowserInstance>> (line 23)
    instState,           \* driver: state of each launched persistent context
    instKey,             \* BrowserInstance.sessionDir
    closeEvents,         \* driver: 'close' events emitted, handler not yet run
    nextInst,            \* next instance identity the driver hands out
    callPc,              \* position of each getBrowserForSession call
    callKey,             \* its sessionDir argument
    callJoined,          \* the launch promise it awaits (its own or another's)
    callGot,             \* the BrowserInstance it returned
    microtasks,          \* continuations queued on a settled launch promise
    closePc,             \* position of each closeBrowserForSession call
    closeKey,            \* its sessionDir argument
    closeInst            \* the instance it read from the map (line 222)

    \* ---- AccountsService (the ledger) and its history -------------------
VARIABLES
    file,        \* content of account-rotation-state.json (a RotationState)
    fileExists,  \* fs.existsSync(rotationStatePath)
    now,         \* Date.now(), in milliseconds
    selected,    \* history: times each account was returned by a selection
    folded,      \* history: each account's outcomes applied in order
    streak,      \* history: failures reported since the last success
    qualified,   \* history: a qualifying failure since the last success
    reported,    \* history: number of outcome reports
    lastCall     \* history: the last ledger call, its arguments and result

    \* ---- single mode: controller, queue, InstagramScraperService ----------
VARIABLES
    jobState,         \* the 'scrape-profile' job: none, waiting, active,
                      \* completed, failed; responded once the controller answered
    failedUsernames,  \* scrapeProfile: accounts that failed in this request
    attempts,         \* scrapeProfile: the loop counter
    attemptAccount,   \* scrapeProfile: `account`, the account of the attempt in progress
    jobResult,        \* what the job returned, or the error it failed with
    response,         \* the HTTP response of the controller
    repairPc,         \* position of the background repairSession of each account
    repairResult,     \* how that repair ended
    attemptLog,       \* history: the attempts of the request, in order
    earlier           \* history: ledger calls of requests served before

ledgerVars == <<file, fileExists, now, selected, folded, streak, qualified,
                reported, lastCall>>

singleVars == <<jobState, failedUsernames, attempts, attemptAccount, jobResult,
                response, repairPc, repairResult, attemptLog, earlier>>

    \* ---- batch mode: InstagramScraperService.scrapeProfiles ---------------
VARIABLES
    batchPc,             \* position of the batch request
    usernames,           \* scrapeProfiles: the targets requested
    results,             \* scrapeProfiles: the outcomes collected
    failedBotUsernames,  \* scrapeProfiles: accounts that threw in this request
    currentBotAttempt,   \* scrapeProfiles: the loop counter
    batchAccount,        \* scrapeProfiles: `account`, the account at work
    botUsernames,        \* processBatchWithBot: `usernames`, its targets
    botResults,          \* processBatchWithBot: `results`
    windowIndex,         \* processBatchWithBot: `i`, start of the window
    scrapePromises,      \* processBatchWithBot: the scrapes of the window
    fetchLog,            \* history: the scrapes started, in order
    batchLog,            \* history: the accounts selected, in order
    batchReports,        \* history: the reports made to the ledger
    usageAtStart         \* history: usage counts when the request arrived

batchVars == <<batchPc, usernames, results, failedBotUsernames,
               currentBotAttempt, batchAccount, botUsernames, botResults,
               windowIndex, scrapePromises, fetchLog, batchLog, batchReports,
               usageAtStart>>

    \* ---- the tab of a scrape attempt (createPage, executeScrape) ----------
VARIABLES
    scrapePc,    \* position of the attempt that made each pool call
    scrapeKey,   \* executeScrape: `sessionDir`
    scrapePage,  \* createPage: `page`, the tab the attempt works in
    tabState,    \* driver: state of each tab ever opened
    tabInst,     \* driver: the context the tab belongs to
    nextTab      \* next tab identity the driver hands out

tabVars == <<scrapePc, scrapeKey, scrapePage, tabState, tabInst, nextTab>>

    \* ---- ConcurrencyService ----------------------------------------------
VARIABLES
    activeRequests,  \* the counter of requests admitted
    maxConcurrent,   \* the configured maximum
    admitted,        \* history: the callers whose last acquire was admitted
    lastAdmission    \* history: the last call, the counter before it, its status

admissionVars == <<activeRequests, maxConcurrent, admitted, lastAdmission>>

    \* ---- extraction: scrapePostsFromPage and the end of its attempt --------
VARIABLES
    extractPc,         \* position of scrapePostsFromPage and of its caller
    limit,             \* scrapePostsFromPage: `limit`
    graphqlResponses,  \* the edges of each captured timeline payload
    scrollAttempts,    \* the loop's counters
    lastPostCount,
    noNewPostsCount,
    extracted,         \* what scrapePostsFromPage returned
    scrapeOutcome,     \* what its caller returned
    stopped,           \* history: why the loop was left
    gotData,           \* history: edges were captured during this wait
    staleScrolls,      \* history: scrolls in a row that brought no edge
    responseListeners  \* the handlers attached to the page's 'response'

extractVars == <<extractPc, limit, graphqlResponses, scrollAttempts,
                 lastPostCount, noNewPostsCount, extracted, scrapeOutcome,
                 stopped, gotData, staleScrolls, responseListeners>>

    \* ---- CacheService ----------------------------------------------------
VARIABLES
    cache,      \* Map<string, CacheEntry>
    lastCache   \* history: the last call and what it returned

cacheVars == <<cache, lastCache>>

    \* ---- BrowserService.onModuleDestroy ----------------------------------
VARIABLES
    shutdownPc,       \* position of onModuleDestroy: idle, closing, done
    shutdownClosing,  \* the instances whose context.close() it awaits
    shutdowns         \* number of onModuleDestroy calls made

shutdownVars == <<shutdownPc, shutdownClosing, shutdowns>>

    \* ---- the tabs of a batch: executeScrapeWithContext -------------------
VARIABLES
    windowTabs   \* driver: the tab of each target of the account at work

windowVars == <<windowTabs>>

    \* ---- the session of a batch: processBatchWithBot ----------------------
VARIABLES
    batchPhase,  \* position of processBatchWithBot around its session
    batchHeld,   \* the instance it got from getBrowserForSession (line 302)
    batchDir     \* processBatchWithBot: `sessionDir`

releaseVars == <<batchPhase, batchHeld, batchDir>>

lifecycleVars == <<shutdownVars, windowVars, releaseVars>>

helperVars == <<admissionVars, extractVars, cacheVars, lifecycleVars>>

orchVars == <<singleVars, batchVars, tabVars, helperVars>>

poolVars == <<browserInstances, launchingInstances, instState, instKey,
              closeEvents, nextInst, callPc, callKey, callJoined, callGot,
              microtasks, closePc, closeKey, closeInst>>

(***************************************************************************)
(* BrowserService                                                          *)
(***************************************************************************)

\* mutant: the session is never reported connected
IsConnectedNever(i) == {"false"}
\* existing.browser.isConnected() inside try/catch (lines 113-122), by the
\* declared type of the driver's Browser: true for a live browser; for one
\* that is gone the call answers false or throws.
IsConnectedOutcomes(i) ==
    IF instState[i] = "live" THEN {"true"} ELSE {"false", "throws"}

\* this.browserInstances.delete(sessionDir)
MapDelete(m, k) == [m EXCEPT ![k] = NoInstance]

\* mutant: the in-flight registry is never consulted
LaunchInProgressIgnored(l, k) == NoInstance
\* this.launchingInstances.get(sessionDir) (line 126)
LaunchInProgress(l, k) == l[k]

\* mutant: the launch promise is not recorded
LaunchNotRegistered(l, k, i) == l
\* this.launchingInstances.set(sessionDir, launchPromise) (line 141)
LaunchRegistered(l, k, i) == [l EXCEPT ![k] = i]

\* the call that started launch i and awaits it on line 144
Launcher(i) == CHOOSE c \in Calls : callPc[c] = "awaitLaunch" /\ callJoined[c] = i
\* the calls that found launch i in flight and await it on line 130
Waiters(i) == {c \in Calls : callPc[c] = "awaitLaunching" /\ callJoined[c] = i}

\* getBrowserForSession(sessionDir), lines 109-141: from the call to its
\* return (a connected session exists) or to its first await.
GetBrowserForSession(c, k) ==
    /\ UNCHANGED <<ledgerVars, orchVars>>
    /\ microtasks = {}
    /\ callPc[c] = "idle"
    /\ LET existing == browserInstances[k] IN
       \E conn \in (IF existing = NoInstance THEN {"none"}
                    ELSE IsConnectedOutcomes(existing)) :
         IF conn = "true"
         THEN \* lines 115-117: reuse
              /\ callPc' = [callPc EXCEPT ![c] = "done"]
              /\ callKey' = [callKey EXCEPT ![c] = k]
              /\ callGot' = [callGot EXCEPT ![c] = existing]
              /\ UNCHANGED <<browserInstances, launchingInstances, instState,
                             instKey, nextInst, callJoined>>
         ELSE LET map1 == IF conn = "throws" THEN MapDelete(browserInstances, k)
                          ELSE browserInstances
                  launching == LaunchInProgress(launchingInstances, k)
              IN IF launching # NoInstance
                 THEN \* lines 127-130: await the launch in progress
                      /\ browserInstances' = map1
                      /\ callPc' = [callPc EXCEPT ![c] = "awaitLaunching"]
                      /\ callKey' = [callKey EXCEPT ![c] = k]
                      /\ callJoined' = [callJoined EXCEPT ![c] = launching]
                      /\ UNCHANGED <<launchingInstances, instState, instKey,
                                     nextInst, callGot>>
                 ELSE \* lines 137-144: launch and await
                      /\ nextInst <= MaxLaunches
                      /\ browserInstances' = map1
                      /\ instState' = [instState EXCEPT ![nextInst] = "launching"]
                      /\ instKey' = [instKey EXCEPT ![nextInst] = k]
                      /\ launchingInstances' =
                             LaunchRegistered(launchingInstances, k, nextInst)
                      /\ nextInst' = nextInst + 1
                      /\ callPc' = [callPc EXCEPT ![c] = "awaitLaunch"]
                      /\ callKey' = [callKey EXCEPT ![c] = k]
                      /\ callJoined' = [callJoined EXCEPT ![c] = nextInst]
                      /\ UNCHANGED callGot
    /\ UNCHANGED <<closeEvents, microtasks, closePc, closeKey, closeInst>>

\* chromium.launchPersistentContext resolves (line 263): launchBrowser
\* registers the 'close' handler and returns the instance (lines 275-286);
\* the launcher, first to await the promise, records it and clears the
\* registry (lines 144-148); the waiters' continuations are queued behind it.
LaunchSucceeds(i) ==
    /\ UNCHANGED <<ledgerVars, orchVars>>
    /\ microtasks = {}
    /\ instState[i] = "launching"
    /\ LET c == Launcher(i) k == instKey[i] IN
       /\ instState' = [instState EXCEPT ![i] = "live"]
       /\ browserInstances' = [browserInstances EXCEPT ![k] = i]
       /\ launchingInstances' = MapDelete(launchingInstances, k)
       /\ callPc' = [callPc EXCEPT ![c] = "done"]
       /\ callGot' = [callGot EXCEPT ![c] = i]
       /\ microtasks' = Waiters(i)
    /\ UNCHANGED <<instKey, closeEvents, nextInst, callKey, callJoined,
                   closePc, closeKey, closeInst>>

\* mutant: the registry keeps the launch that failed
RegistryKept(l, k) == l
\* finally { this.launchingInstances.delete(sessionDir) } (lines 147-149)
\* on the way out of a launch that rejected
RegistryCleared(l, k) == MapDelete(l, k)

\* chromium.launchPersistentContext rejects (lines 268-272): the launcher
\* rethrows after clearing the registry (finally, line 148).
LaunchFails(i) ==
    /\ UNCHANGED <<ledgerVars, orchVars>>
    /\ microtasks = {}
    /\ instState[i] = "launching"
    /\ LET c == Launcher(i) k == instKey[i] IN
       /\ instState' = [instState EXCEPT ![i] = "failed"]
       /\ launchingInstances' = RegistryCleared(launchingInstances, k)
       /\ callPc' = [callPc EXCEPT ![c] = "failed"]
       /\ microtasks' = Waiters(i)
    /\ UNCHANGED <<browserInstances, instKey, closeEvents, nextInst, callKey,
                   callJoined, callGot, closePc, closeKey, closeInst>>

\* a waiter's continuation (lines 130-132): return or rethrow what the
\* launch gave, then launchingInstances.delete(sessionDir).
WaiterResumes(c) ==
    /\ UNCHANGED <<ledgerVars, orchVars>>
    /\ c \in microtasks
    /\ LET i == callJoined[c] IN
       IF instState[i] = "failed"
       THEN /\ callPc' = [callPc EXCEPT ![c] = "failed"]
            /\ UNCHANGED callGot
       ELSE /\ callPc' = [callPc EXCEPT ![c] = "done"]
            /\ callGot' = [callGot EXCEPT ![c] = i]
    /\ launchingInstances' = MapDelete(launchingInstances, callKey[c])
    /\ microtasks' = microtasks \ {c}
    /\ UNCHANGED <<browserInstances, instState, instKey, closeEvents, nextInst,
                   callKey, callJoined, closePc, closeKey, closeInst>>

\* the caller takes the result (or the error) of getBrowserForSession
CallReturns(c) ==
    /\ UNCHANGED <<ledgerVars, orchVars>>
    /\ microtasks = {}
    /\ callPc[c] \in {"done", "failed"}
    /\ callPc' = [callPc EXCEPT ![c] = "idle"]
    /\ callKey' = [callKey EXCEPT ![c] = NoDir]
    /\ callJoined' = [callJoined EXCEPT ![c] = NoInstance]
    /\ callGot' = [callGot EXCEPT ![c] = NoInstance]
    /\ UNCHANGED <<browserInstances, launchingInstances, instState, instKey,
                   closeEvents, nextInst, microtasks, closePc, closeKey,
                   closeInst>>

\* driver: a live context goes away (context.close() took effect, the
\* browser process exited or crashed) and emits 'close'.
BrowserDisconnects(i) ==
    /\ UNCHANGED <<ledgerVars, orchVars>>
    /\ microtasks = {}
    /\ instState[i] = "live"
    /\ instState' = [instState EXCEPT ![i] = "closed"]
    /\ closeEvents' = closeEvents \cup {i}
    /\ UNCHANGED <<browserInstances, launchingInstances, instKey, nextInst,
                   callPc, callKey, callJoined, callGot, microtasks, closePc,
                   closeKey, closeInst>>

\* the handler registered on line 275 runs (lines 276-277)
CloseEvent(i) ==
    /\ UNCHANGED <<ledgerVars, orchVars>>
    /\ microtasks = {}
    /\ i \in closeEvents
    /\ closeEvents' = closeEvents \ {i}
    /\ browserInstances' = MapDelete(browserInstances, instKey[i])
    /\ UNCHANGED <<launchingInstances, instState, instKey, nextInst, callPc,
                   callKey, callJoined, callGot, microtasks, closePc, closeKey,
                   closeInst>>

\* closeBrowserForSession(sessionDir), lines 221-225: up to the await of
\* instance.context.close().  With no entry for the key the call does nothing.
CloseBrowserForSession(d, k) ==
    /\ UNCHANGED <<ledgerVars, orchVars>>
    /\ microtasks = {}
    /\ closePc[d] = "idle"
    /\ browserInstances[k] # NoInstance
    /\ closePc' = [closePc EXCEPT ![d] = "awaitClose"]
    /\ closeKey' = [closeKey EXCEPT ![d] = k]
    /\ closeInst' = [closeInst EXCEPT ![d] = browserInstances[k]]
    /\ UNCHANGED <<browserInstances, launchingInstances, instState, instKey,
                   closeEvents, nextInst, callPc, callKey, callJoined, callGot,
                   microtasks>>

\* instance.context.close() settles, once the context is gone (a rejection
\* is only logged, lines 226-228); then browserInstances.delete (line 229).
ContextCloseSettles(d) ==
    /\ UNCHANGED <<ledgerVars, orchVars>>
    /\ microtasks = {}
    /\ closePc[d] = "awaitClose"
    /\ instState[closeInst[d]] = "closed"
    /\ browserInstances' = MapDelete(browserInstances, closeKey[d])
    /\ closePc' = [closePc EXCEPT ![d] = "idle"]
    /\ closeKey' = [closeKey EXCEPT ![d] = NoDir]
    /\ closeInst' = [closeInst EXCEPT ![d] = NoInstance]
    /\ UNCHANGED <<launchingInstances, instState, instKey, closeEvents,
                   nextInst, callPc, callKey, callJoined, callGot, microtasks>>

InitPool ==
    /\ browserInstances = [k \in SessionDirs |-> NoInstance]
    /\ launchingInstances = [k \in SessionDirs |-> NoInstance]
    /\ instState = [i \in Instances |-> "unused"]
    /\ instKey = [i \in Instances |-> NoDir]
    /\ closeEvents = {}
    /\ nextInst = 1
    /\ callPc = [c \in Calls |-> "idle"]
    /\ callKey = [c \in Calls |-> NoDir]
    /\ callJoined = [c \in Calls |-> NoInstance]
    /\ callGot = [c \in Calls |-> NoInstance]
    /\ microtasks = {}
    /\ closePc = [d \in CloseCalls |-> "idle"]
    /\ closeKey = [d \in CloseCalls |-> NoDir]
    /\ closeInst = [d \in CloseCalls |-> NoInstance]

NextPool ==
    \/ \E c \in Calls, k \in SessionDirs : GetBrowserForSession(c, k)
    \/ \E i \in Instances : LaunchSucceeds(i)
    \/ \E i \in Instances : LaunchFails(i)
    \/ \E c \in Calls : WaiterResumes(c)
    \/ \E c \in Calls : CallReturns(c)
    \/ \E i \in Instances : BrowserDisconnects(i)
    \/ \E i \in Instances : CloseEvent(i)
    \/ \E d \in CloseCalls, k \in SessionDirs : CloseBrowserForSession(d, k)
    \/ \E d \in CloseCalls : ContextCloseSettles(d)

(***************************************************************************)
(* BrowserService.onModuleDestroy (lines 81-104).  The periodic cleanup of *)
(* zombie processes (lines 37-76, 103) acts on operating-system processes  *)
(* and swallows its errors; a browser it kills is a BrowserDisconnects.    *)
(***************************************************************************)
\* Array.from(this.browserInstances.values()) (line 89)
MapValues(m) == {m[k] : k \in SessionDirs} \ {NoInstance}

\* this.browserInstances.clear() (line 99)
MapClear(m) == [k \in SessionDirs |-> NoInstance]

\* onModuleDestroy, lines 81-98: context.close() is called on every
\* instance the map holds and the closes are awaited together.  With
\* nothing to close, Promise.all resolves at once and the rest of the
\* function (line 99) runs before the event loop takes another task.
OnModuleDestroy ==
    /\ microtasks = {}
    /\ shutdownPc \in {"idle", "done"}
    /\ shutdowns < MaxShutdowns
    /\ shutdowns' = shutdowns + 1
    /\ LET closing == MapValues(browserInstances) IN
       IF closing = {}
       THEN /\ shutdownPc' = "done"
            /\ shutdownClosing' = {}
            /\ browserInstances' = MapClear(browserInstances)
       ELSE /\ shutdownPc' = "closing"
            /\ shutdownClosing' = closing
            /\ UNCHANGED browserInstances
    /\ UNCHANGED <<launchingInstances, instState, instKey, closeEvents, nextInst,
                   callPc, callKey, callJoined, callGot, microtasks, closePc,
                   closeKey, closeInst>>
    /\ UNCHANGED <<ledgerVars, singleVars, batchVars, tabVars, admissionVars,
                   extractVars, cacheVars, windowVars, releaseVars>>

\* every context.close() has settled, once its context is gone (a
\* rejection is only logged, lines 93-95): Promise.all resolves and the
\* map is cleared (lines 98-99)
OnModuleDestroyClears ==
    /\ microtasks = {}
    /\ shutdownPc = "closing"
    /\ \A i \in shutdownClosing : instState[i] = "closed"
    /\ browserInstances' = MapClear(browserInstances)
    /\ shutdownPc' = "done"
    /\ shutdownClosing' = {}
    /\ UNCHANGED shutdowns
    /\ UNCHANGED <<launchingInstances, instState, instKey, closeEvents, nextInst,
                   callPc, callKey, callJoined, callGot, microtasks, closePc,
                   closeKey, closeInst>>
    /\ UNCHANGED <<ledgerVars, singleVars, batchVars, tabVars, admissionVars,
                   extractVars, cacheVars, windowVars, releaseVars>>

InitShutdown ==
    /\ shutdownPc = "idle"
    /\ shutdownClosing = {}
    /\ shutdowns = 0

\* a call made before the module is destroyed
GetBrowserBeforeDestroy(c, k) ==
    /\ shutdowns = 0
    /\ GetBrowserForSession(c, k)

\* the pool while the module is destroyed: calls are made until the
\* shutdown starts, and those in flight go on
NextShutdown ==
    \/ \E c \in Calls, k \in SessionDirs : GetBrowserBeforeDestroy(c, k)
    \/ \E i \in Instances : LaunchSucceeds(i)
    \/ \E i \in Instances : LaunchFails(i)
    \/ \E c \in Calls : WaiterResumes(c)
    \/ \E c \in Calls : CallReturns(c)
    \/ \E i \in Instances : BrowserDisconnects(i)
    \/ \E i \in Instances : CloseEvent(i)
    \/ OnModuleDestroy
    \/ OnModuleDestroyClears

(***************************************************************************)
(* AccountsService (src/unnamed/part_002, lines 1100-1426)                 *)
(*                                                                         *)
(* Every method of the service is synchronous (readFileSync/writeFileSync) *)
(* and so is one atomic action of the event loop.  The state file is taken *)
(* to be readable and writable: the catch branches of readRotationState    *)
(* and writeRotationState, which only log, are not taken.                  *)
(***************************************************************************)

\* this.accounts: the configured accounts, in configuration order
accounts == <<"bot_1", "bot_2", "bot_3">>
Usernames == {accounts[i] : i \in 1..Len(accounts)}
\* getLeastUsedAccount returning null
NoAccount == "null"

\* strings that are matched or compared by content are sequences of characters
UnknownError == <<"U", "n", "k", "n", "o", "w", "n", " ", "e", "r", "r", "o", "r">>
\* error messages reported by the scrape attempts (error.message)
ErrTimeout      == <<"T", "i", "m", "e", "o", "u", "t">>
ErrChallenge    == <<"C", "h", "a", "l", "l", "e", "n", "g", "e", " ", "r", "e", "q", "u", "i", "r", "e", "d">>
ErrInhabilitada == <<"C", "u", "e", "n", "t", "a", " ", "i", "n", "h", "a", "b", "i", "l", "i", "t", "a", "d", "a">>
ErrSuspended    == <<"s", "u", "s", "p", "e", "n", "d", "e", "d">>
ErrBanned       == <<"B", "A", "N", "N", "E", "D">>
ErrDisabled     == <<"A", "c", "c", "o", "u", "n", "t", " ", "d", "i", "s", "a", "b", "l", "e", "d">>
ErrEmpty        == <<>>
\* the optional `error` argument left out (undefined)
NoError         == <<"undefined">>
ErrorArgs == {ErrTimeout, ErrChallenge, ErrInhabilitada, ErrSuspended,
              ErrBanned, ErrDisabled, ErrEmpty, NoError}
\* failureReason: null
NullReason == <<"null">>
\* lastSuccess / lastFailure: null
NullTime == -1

\* String.prototype.toLowerCase
UpperLetters == <<"A", "B", "C", "D", "E", "F", "G", "H", "I", "J", "K", "L", "M",
                  "N", "O", "P", "Q", "R", "S", "T", "U", "V", "W", "X", "Y", "Z">>
LowerLetters == <<"a", "b", "c", "d", "e", "f", "g", "h", "i", "j", "k", "l", "m",
                  "n", "o", "p", "q", "r", "s", "t", "u", "v", "w", "x", "y", "z">>
LowerChar(ch) ==
    IF \E i \in 1..Len(UpperLetters) : UpperLetters[i] = ch
    THEN LowerLetters[CHOOSE i \in 1..Len(UpperLetters) : UpperLetters[i] = ch]
    ELSE ch
ToLowerCase(s) == [i \in 1..Len(s) |-> LowerChar(s[i])]

\* String.prototype.includes
Includes(s, sub) ==
    \E i \in 0..(Len(s) - Len(sub)) : SubSeq(s, i + 1, i + Len(sub)) = sub

\* error || fallback (undefined and '' are falsy)
OrElse(error, fallback) ==
    IF error = NoError \/ error = <<>> THEN fallback ELSE error

\* mutant: the reason is matched as written, without toLowerCase
IsCriticalErrorCaseSensitive(error) ==
    LET e == OrElse(error, <<>>) IN
    \/ Includes(e, <<"c", "h", "a", "l", "l", "e", "n", "g", "e">>)
    \/ Includes(e, <<"i", "n", "h", "a", "b", "i", "l", "i", "t", "a", "d", "a">>)
    \/ Includes(e, <<"s", "u", "s", "p", "e", "n", "d", "e", "d">>)
    \/ Includes(e, <<"b", "a", "n", "n", "e", "d">>)
\* isCriticalError, lines 1357-1360
IsCriticalError(error) ==
    LET e == ToLowerCase(OrElse(error, <<>>)) IN
    \/ Includes(e, <<"c", "h", "a", "l", "l", "e", "n", "g", "e">>)
    \/ Includes(e, <<"i", "n", "h", "a", "b", "i", "l", "i", "t", "a", "d", "a">>)
    \/ Includes(e, <<"s", "u", "s", "p", "e", "n", "d", "e", "d">>)
    \/ Includes(e, <<"b", "a", "n", "n", "e", "d">>)

\* consecutive failures after which an account is marked inactive (line 1363)
MaxConsecutiveFailures == 3

\* `defaults` of readRotationState, lines 1291-1296: the maps are empty
EmptyMap == [u \in {} |-> 0]
Defaults == [lastUsedIndex |-> -1,
             lastUsedTimestamps |-> EmptyMap,
             usageCount |-> EmptyMap,
             accountStatus |-> EmptyMap]

\* the object literal of lines 1337-1343 (and 1395-1401)
DefaultStatus == [isActive |-> TRUE,
                  lastSuccess |-> NullTime,
                  lastFailure |-> NullTime,
                  failureReason |-> NullReason,
                  consecutiveFailures |-> 0]

\* obj[key] = value
MapSet(m, k, v) == [x \in (DOMAIN m) \cup {k} |-> IF x = k THEN v ELSE m[x]]
\* state.usageCount[username] || 0
UsageOf(state, u) ==
    IF u \in DOMAIN state.usageCount THEN state.usageCount[u] ELSE 0
\* state.accountStatus[username] || { ...defaults }
StatusOf(state, u) ==
    IF u \in DOMAIN state.accountStatus THEN state.accountStatus[u]
    ELSE DefaultStatus

\* mutant: the state file is never read back; every call starts from defaults
ReadRotationStateCold(f, exists) == Defaults
\* readRotationState, lines 1290-1310: { ...defaults, ...parsed }, or the
\* defaults when the file does not exist
ReadRotationState(f, exists) == IF exists THEN f ELSE Defaults
\* writeRotationState, lines 1315-1325: the whole state replaces the file
\* (numbers, strings, booleans and null survive JSON.stringify unchanged)
WriteRotationState(state) == state

\* `Infinity`, the initial minUsage (line 1219)
Infinity == -1
\* mutant: usage <= minUsage
UsageLessOrEqual(usage, minUsage) == minUsage = Infinity \/ usage <= minUsage
\* usage < minUsage (line 1225)
UsageLess(usage, minUsage) == minUsage = Infinity \/ usage < minUsage

\* the loop of lines 1221-1229, from account i on
RECURSIVE LeastUsedScan(_, _, _, _, _)
LeastUsedScan(state, excluded, i, leastUsedAccount, minUsage) ==
    IF i > Len(accounts) THEN leastUsedAccount
    ELSE LET account == accounts[i]
             usage == UsageOf(state, account)
         IN IF account \in excluded
            THEN LeastUsedScan(state, excluded, i + 1, leastUsedAccount, minUsage)
            ELSE IF UsageLess(usage, minUsage)
                 THEN LeastUsedScan(state, excluded, i + 1, account, usage)
                 ELSE LeastUsedScan(state, excluded, i + 1, leastUsedAccount, minUsage)

\* mutant: the counter is set to 1 instead of being incremented
UsageRestarted(state, u, nowMs) ==
    [state EXCEPT !.lastUsedTimestamps = MapSet(@, u, nowMs),
                  !.usageCount = MapSet(@, u, 1)]
\* the update of lines 1239-1240
UsageIncremented(state, u, nowMs) ==
    [state EXCEPT !.lastUsedTimestamps = MapSet(@, u, nowMs),
                  !.usageCount = MapSet(@, u, UsageOf(state, u) + 1)]

\* mutant: failures are counted only while the account is active
UpdatedStatusSkipInactive(cur, success, error, nowSec) ==
    IF success
    THEN [cur EXCEPT !.isActive = TRUE, !.lastSuccess = nowSec,
                     !.consecutiveFailures = 0, !.failureReason = NullReason]
    ELSE IF ~cur.isActive THEN cur
    ELSE LET failures == cur.consecutiveFailures + 1 IN
         [cur EXCEPT !.lastFailure = nowSec,
                     !.failureReason = OrElse(error, UnknownError),
                     !.consecutiveFailures = failures,
                     !.isActive = IF IsCriticalError(error)
                                     \/ failures >= MaxConsecutiveFailures
                                  THEN FALSE ELSE @]
\* mutant: a failure below the threshold marks the account active again
UpdatedStatusReactivates(cur, success, error, nowSec) ==
    IF success
    THEN [cur EXCEPT !.isActive = TRUE, !.lastSuccess = nowSec,
                     !.consecutiveFailures = 0, !.failureReason = NullReason]
    ELSE LET failures == cur.consecutiveFailures + 1 IN
         [cur EXCEPT !.lastFailure = nowSec,
                     !.failureReason = OrElse(error, UnknownError),
                     !.consecutiveFailures = failures,
                     !.isActive = ~(IsCriticalError(error)
                                    \/ failures >= MaxConsecutiveFailures)]
\* the transition of lines 1345-1370 on currentStatus
UpdatedStatus(cur, success, error, nowSec) ==
    IF success
    THEN [cur EXCEPT !.isActive = TRUE, !.lastSuccess = nowSec,
                     !.consecutiveFailures = 0, !.failureReason = NullReason]
    ELSE LET failures == cur.consecutiveFailures + 1 IN
         [cur EXCEPT !.lastFailure = nowSec,
                     !.failureReason = OrElse(error, UnknownError),
                     !.consecutiveFailures = failures,
                     !.isActive = IF IsCriticalError(error)
                                     \/ failures >= MaxConsecutiveFailures
                                  THEN FALSE ELSE @]

\* Math.floor(Date.now() / 1000) (line 1335)
NowSeconds == now \div 1000

\* getLeastUsedAccount(excludedUsernames), lines 1212-1244
GetLeastUsedAccount(excluded) ==
    /\ UNCHANGED <<poolVars, orchVars>>
    /\ LET state == ReadRotationState(file, fileExists)
           leastUsedAccount == LeastUsedScan(state, excluded, 1, NoAccount, Infinity)
       IN IF leastUsedAccount = NoAccount
          THEN \* lines 1231-1234
               /\ lastCall' = [op |-> "getLeastUsedAccount", excluded |-> excluded,
                               user |-> NoAccount, success |-> FALSE,
                               error |-> NoError, ret |-> NoAccount]
               /\ UNCHANGED <<file, fileExists, now, selected, folded, streak,
                              qualified, reported>>
          ELSE /\ UsageOf(state, leastUsedAccount) < MaxUsage
               /\ file' = WriteRotationState(
                              UsageIncremented(state, leastUsedAccount, now))
               /\ fileExists' = TRUE
               /\ selected' = [selected EXCEPT ![leastUsedAccount] = @ + 1]
               /\ lastCall' = [op |-> "getLeastUsedAccount", excluded |-> excluded,
                               user |-> NoAccount, success |-> FALSE,
                               error |-> NoError, ret |-> leastUsedAccount]
               /\ UNCHANGED <<now, folded, streak, qualified, reported>>

\* updateAccountStatus(username, success, error), lines 1333-1374
UpdateAccountStatus(u, success, error) ==
    /\ UNCHANGED <<poolVars, orchVars>>
    /\ reported < MaxReports
    /\ LET state == ReadRotationState(file, fileExists)
           currentStatus == UpdatedStatus(StatusOf(state, u), success, error,
                                          NowSeconds)
       IN /\ file' = WriteRotationState(
                        [state EXCEPT !.accountStatus = MapSet(@, u, currentStatus)])
          /\ fileExists' = TRUE
    \* history: the outcomes of u applied in order, its run of failures since
    \* the last success, and whether one of them qualified for deactivation
    /\ folded' = [folded EXCEPT ![u] = UpdatedStatus(@, success, error, NowSeconds)]
    /\ streak' = [streak EXCEPT ![u] = IF success THEN 0 ELSE @ + 1]
    /\ qualified' = [qualified EXCEPT ![u] =
                        IF success THEN FALSE
                        ELSE @ \/ streak[u] + 1 >= 3 \/ IsCriticalError(error)]
    /\ reported' = reported + 1
    /\ lastCall' = [op |-> "updateAccountStatus", excluded |-> {},
                    user |-> u, success |-> success, error |-> error,
                    ret |-> NoAccount]
    /\ UNCHANGED <<now, selected>>

\* time passes (Date.now() is read in milliseconds)
Tick ==
    /\ UNCHANGED <<poolVars, orchVars>>
    /\ now < MaxTicks * 500
    /\ now' = now + 500
    /\ UNCHANGED <<file, fileExists, selected, folded, streak, qualified,
                   reported, lastCall>>

InitLedger ==
    /\ file = Defaults
    /\ fileExists = FALSE
    /\ now = 0
    /\ selected = [u \in Usernames |-> 0]
    /\ folded = [u \in Usernames |-> DefaultStatus]
    /\ streak = [u \in Usernames |-> 0]
    /\ qualified = [u \in Usernames |-> FALSE]
    /\ reported = 0
    /\ lastCall = [op |-> "none", excluded |-> {}, user |-> NoAccount,
                   success |-> FALSE, error |-> NoError, ret |-> NoAccount]

\* selections only
NextSelect ==
    \/ \E excluded \in SUBSET Usernames : GetLeastUsedAccount(excluded)
    \/ Tick

\* outcome reports only
NextHealth ==
    \/ \E u \in Usernames : UpdateAccountStatus(u, TRUE, NoError)
    \/ \E u \in Usernames, error \in ErrorArgs : UpdateAccountStatus(u, FALSE, error)
    \/ Tick

\* selections and outcome reports of concurrent scrapes, interleaved; the
\* failures reported are a timeout or a challenge
NextLedger ==
    \/ \E excluded \in SUBSET Usernames : GetLeastUsedAccount(excluded)
    \/ \E u \in Usernames : UpdateAccountStatus(u, TRUE, NoError)
    \/ \E u \in Usernames, error \in {ErrTimeout, ErrChallenge} :
           UpdateAccountStatus(u, FALSE, error)

(***************************************************************************)
(* Single mode: ScraperController.scrapeInstagramPosts puts a               *)
(* 'scrape-profile' job on the queue (scraper.controller.ts, lines 54-178), *)
(* ScraperProcessor runs InstagramScraperService.scrapeProfile for it       *)
(* (scraper.processor.ts; part_002, lines 504-557) and the controller       *)
(* answers when the job has finished.  The queue (BullMQ) behaves as the    *)
(* code relies on: the job's return value comes back from                   *)
(* waitUntilFinished, and an error thrown by the processor (attempts: 1,    *)
(* part_001 line 24) makes waitUntilFinished reject with its message.       *)
(*                                                                          *)
(* The session pool is seen here through the outcome of an attempt only.    *)
(***************************************************************************)
\* accountsService.getAccountCount()
totalAccounts == Len(accounts)
\* the profile the request asks for
Target == "a"

\* messages of the errors an attempt can throw: the login wall (line 594),
\* and errors of the browser driver (launch, navigation, extraction)
ErrSessionInvalid ==
    <<"S", "e", "s", "s", "i", "o", "n", " ", "i", "n", "v", "a", "l", "i", "d",
      " ", "(", "l", "o", "g", "i", "n", " ", "r", "e", "q", "u", "i", "r", "e",
      "d", ")", ".", " ", "T", "r", "i", "g", "g", "e", "r", "i", "n", "g", " ",
      "r", "e", "p", "a", "i", "r", ".">>
AttemptErrors == {ErrSessionInvalid, ErrTimeout, ErrChallenge}
\* 'Account is private' (lines 447 and 619)
ErrPrivate == <<"A", "c", "c", "o", "u", "n", "t", " ", "i", "s", " ", "p", "r",
                "i", "v", "a", "t", "e">>
\* what the extraction and the date filter leave: the ids of the posts
PostLists == {<<>>, <<"post_1">>}

\* "no outcome yet"
NoOutcome == [success |-> FALSE, username |-> "none", posts |-> <<>>,
              scrapedWith |-> NoAccount, error |-> NoError]
NoJobResult == [kind |-> "none", outcome |-> NoOutcome, status |-> 0]
NoResponse == [status |-> 0, success |-> FALSE, results |-> <<>>]

\* HttpStatus.SERVICE_UNAVAILABLE, BadRequestException, @HttpCode(HttpStatus.OK)
ServiceUnavailable == 503
BadRequest == 400
Ok == 200

\* getLeastUsedAccount on the ledger state (f, exists): the account returned
LeastUsedIn(f, exists, excluded) ==
    LeastUsedScan(ReadRotationState(f, exists), excluded, 1, NoAccount, Infinity)
\* mutant: the selection is not written back
FileAfterSelectionNotWritten(f, exists, excluded, nowMs) ==
    ReadRotationState(f, exists)
\* ... and the state file it leaves (lines 1231-1241)
FileAfterSelection(f, exists, excluded, nowMs) ==
    LET state == ReadRotationState(f, exists)
        leastUsedAccount == LeastUsedIn(f, exists, excluded)
    IN IF leastUsedAccount = NoAccount THEN f
       ELSE WriteRotationState(UsageIncremented(state, leastUsedAccount, nowMs))
\* updateAccountStatus on the ledger state (f, exists): the state file it
\* leaves (lines 1334-1373)
FileAfterReport(f, exists, u, success, error, nowSec) ==
    LET state == ReadRotationState(f, exists) IN
    WriteRotationState(
        [state EXCEPT !.accountStatus =
            MapSet(@, u, UpdatedStatus(StatusOf(state, u), success, error, nowSec))])

\* mutant: the failed account is not remembered
PushDropped(list, u) == list
\* failedUsernames.push(account.username) (line 540)
Push(list, u) == Append(list, u)

\* mutant: the failure of the attempt is not reported to the ledger
FailureNotReported(f, exists, u, error, nowSec) == ReadRotationState(f, exists)
\* accountsService.updateAccountStatus(account.username, false, error.message)
\* (line 541)
FailureReported(f, exists, u, error, nowSec) ==
    FileAfterReport(f, exists, u, FALSE, error, nowSec)

\* mutant: a repair that did not succeed fails the job
RepairFailurePropagates(repair, result) ==
    IF repair = "ok" THEN result
    ELSE [kind |-> "thrown", outcome |-> NoOutcome, status |-> 500]
\* the promise of repairSession is not awaited; its try/catch (lines 698-712)
\* and the .catch of lines 542-544 only log: the job keeps its result
RepairFailureLogged(repair, result) == result

\* the set of the names in failedUsernames
Excluded(failed) == {failed[i] : i \in 1..Len(failed)}

\* the while loop of scrapeProfile from its test to the await of
\* executeScrape (lines 523-535), or to the throw after the loop (lines
\* 550-556), on the ledger state (f, exists)
ScrapeProfileLoop(f, exists, failed, att, log) ==
    LET excluded == Excluded(failed)
        selection == IF att < totalAccounts
                     THEN LeastUsedIn(f, exists, excluded) ELSE NoAccount
    IN IF selection # NoAccount
       THEN /\ file' = FileAfterSelection(f, exists, excluded, now)
            /\ fileExists' = TRUE
            /\ attemptAccount' = selection
            /\ jobState' = "active"
            /\ attemptLog' = Append(log,
                   [account |-> selection, excluded |-> excluded,
                    outcome |-> "pending", error |-> NoError,
                    failuresBefore |-> StatusOf(ReadRotationState(f, exists),
                                                selection).consecutiveFailures])
            /\ UNCHANGED jobResult
       ELSE /\ file' = f
            /\ fileExists' = exists
            /\ attemptAccount' = NoAccount
            /\ jobState' = "failed"
            /\ jobResult' = [kind |-> "thrown", outcome |-> NoOutcome,
                             status |-> ServiceUnavailable]
            /\ attemptLog' = log

\* the attempt in progress, marked with how it ended
LogOutcome(log, outcome, error) ==
    [log EXCEPT ![Len(log)].outcome = outcome, ![Len(log)].error = error]

\* scrapeInstagramPosts, lines 54-67 and 137-141: a body with neither or
\* both of username and usernames is rejected; a single username is queued.
\* (A body with usernames only takes the batch branch, lines 70-134.)
ScrapeInstagramPosts(hasSingleUsername, hasMultipleUsernames) ==
    /\ jobState = "none" /\ batchPc = "none"
    /\ hasSingleUsername \/ ~hasMultipleUsernames
    /\ IF hasSingleUsername /\ ~hasMultipleUsernames
       THEN /\ jobState' = "waiting"
            /\ UNCHANGED response
       ELSE /\ jobState' = "responded"
            /\ response' = [status |-> BadRequest, success |-> FALSE,
                            results |-> <<>>]
    /\ UNCHANGED <<failedUsernames, attempts, attemptAccount, jobResult, repairPc,
                   repairResult, attemptLog, earlier>>
    /\ UNCHANGED <<helperVars, tabVars, poolVars, ledgerVars, batchVars>>

\* the worker takes the job: process and handleScrapeProfile
\* (scraper.processor.ts, lines 19-46) call scrapeProfile, which runs to
\* the await of its first executeScrape (part_002, lines 515-535)
Process ==
    /\ jobState = "waiting"
    /\ failedUsernames' = <<>>
    /\ attempts' = 0
    /\ ScrapeProfileLoop(file, fileExists, <<>>, 0, <<>>)
    /\ UNCHANGED <<response, repairPc, repairResult, earlier>>
    /\ UNCHANGED <<helperVars, tabVars, poolVars, batchVars, now, selected, folded, streak,
                   qualified, reported, lastCall>>

\* executeScrape returns (lines 609-668): the profile is private, or the
\* posts were extracted and the success is reported to the ledger; the
\* outcome is the return value of scrapeProfile and of the job
ExecuteScrapeReturns(isPrivate, posts) ==
    /\ jobState = "active"
    /\ LET outcome ==
           IF isPrivate
           THEN [success |-> FALSE, username |-> Target, posts |-> <<>>,
                 scrapedWith |-> attemptAccount, error |-> ErrPrivate]
           ELSE [success |-> TRUE, username |-> Target, posts |-> posts,
                 scrapedWith |-> attemptAccount, error |-> NoError]
       IN /\ jobResult' = [kind |-> "returned", outcome |-> outcome,
                           status |-> 0]
          /\ IF isPrivate
             THEN UNCHANGED <<file, fileExists>>
             ELSE /\ file' = FileAfterReport(file, fileExists, attemptAccount, TRUE,
                                             NoError, NowSeconds)
                  /\ fileExists' = TRUE
    /\ attemptLog' = LogOutcome(attemptLog,
                                IF isPrivate THEN "private" ELSE "success",
                                NoError)
    /\ jobState' = "completed"
    /\ UNCHANGED <<failedUsernames, attempts, attemptAccount, response, repairPc,
                   repairResult, earlier>>
    /\ UNCHANGED <<helperVars, tabVars, poolVars, batchVars, now, selected, folded, streak,
                   qualified, reported, lastCall>>

\* executeScrape throws (lines 594, 606, or an error of the driver): the
\* catch of scrapeProfile (lines 536-547) remembers the account, reports
\* the failure, starts the repair without awaiting it and counts the
\* attempt; the loop goes on to the next account or ends with the 503
ExecuteScrapeThrows(error) ==
    /\ jobState = "active"
    /\ LET failed == Push(failedUsernames, attemptAccount)
           reportedFile == FailureReported(file, fileExists, attemptAccount, error,
                                           NowSeconds)
       IN /\ failedUsernames' = failed
          /\ attempts' = attempts + 1
          /\ repairPc' = [repairPc EXCEPT ![attemptAccount] = "closing"]
          /\ ScrapeProfileLoop(reportedFile, TRUE, failed, attempts + 1,
                               LogOutcome(attemptLog, "thrown", error))
    /\ UNCHANGED <<response, repairResult, earlier>>
    /\ UNCHANGED <<helperVars, tabVars, poolVars, batchVars, now, selected, folded, streak,
                   qualified, reported, lastCall>>

\* job.waitUntilFinished settles (scraper.controller.ts, lines 143-177):
\* the result of the job becomes the 200 response, an error of the job a
\* BadRequestException
WaitUntilFinished ==
    /\ jobState \in {"completed", "failed"}
    /\ response' =
           IF jobResult.kind = "returned"
           THEN [status |-> Ok, success |-> jobResult.outcome.success,
                 results |-> <<jobResult.outcome>>]
           ELSE [status |-> BadRequest, success |-> FALSE, results |-> <<>>]
    /\ jobState' = "responded"
    /\ UNCHANGED <<failedUsernames, attempts, attemptAccount, jobResult, repairPc,
                   repairResult, attemptLog, earlier>>
    /\ UNCHANGED <<helperVars, tabVars, poolVars, ledgerVars, batchVars>>

\* repairSession: closeBrowserForSession has returned (line 701, it never
\* rejects) and ensureSessionReady starts (line 704)
RepairSessionClosed(u) ==
    /\ repairPc[u] = "closing"
    /\ repairPc' = [repairPc EXCEPT ![u] = "verifying"]
    /\ UNCHANGED <<jobState, failedUsernames, attempts, attemptAccount, jobResult,
                   response, repairResult, attemptLog, earlier>>
    /\ UNCHANGED <<helperVars, tabVars, poolVars, ledgerVars, batchVars>>

\* repairSession ends (lines 704-712): the session is ready ("ok"), the
\* login check failed ("failed", ensureSessionReady returned false), or an
\* error was thrown inside the try of repairSession ("crashed")
RepairSessionEnds(u, repair) ==
    /\ repairPc[u] = "verifying"
    /\ repairPc' = [repairPc EXCEPT ![u] = "idle"]
    /\ repairResult' = [repairResult EXCEPT ![u] = repair]
    /\ jobResult' = RepairFailureLogged(repair, jobResult)
    /\ UNCHANGED <<jobState, failedUsernames, attempts, attemptAccount, response,
                   attemptLog, earlier>>
    /\ UNCHANGED <<helperVars, tabVars, poolVars, ledgerVars, batchVars>>

\* a request served before this one selected an account ...
EarlierSelection(excluded) ==
    /\ jobState = "none" /\ batchPc = "none"
    /\ earlier < MaxEarlier
    /\ earlier' = earlier + 1
    /\ file' = FileAfterSelection(file, fileExists, excluded, now)
    /\ fileExists' = (fileExists \/ LeastUsedIn(file, fileExists, excluded) # NoAccount)
    /\ UNCHANGED <<jobState, failedUsernames, attempts, attemptAccount, jobResult,
                   response, repairPc, repairResult, attemptLog>>
    /\ UNCHANGED <<helperVars, tabVars, poolVars, batchVars, now, selected, folded, streak,
                   qualified, reported, lastCall>>

\* ... or reported the outcome of an attempt
EarlierReport(u, success, error) ==
    /\ jobState = "none" /\ batchPc = "none"
    /\ earlier < MaxEarlier
    /\ earlier' = earlier + 1
    /\ file' = FileAfterReport(file, fileExists, u, success, error, NowSeconds)
    /\ fileExists' = TRUE
    /\ UNCHANGED <<jobState, failedUsernames, attempts, attemptAccount, jobResult,
                   response, repairPc, repairResult, attemptLog>>
    /\ UNCHANGED <<helperVars, tabVars, poolVars, batchVars, now, selected, folded, streak,
                   qualified, reported, lastCall>>

InitSingle ==
    /\ jobState = "none"
    /\ failedUsernames = <<>>
    /\ attempts = 0
    /\ attemptAccount = NoAccount
    /\ jobResult = NoJobResult
    /\ response = NoResponse
    /\ repairPc = [u \in Usernames |-> "idle"]
    /\ repairResult = [u \in Usernames |-> "none"]
    /\ attemptLog = <<>>
    /\ earlier = 0

\* one request in single mode, after some earlier traffic on the ledger
NextSingle ==
    \/ \E excluded \in SUBSET Usernames : EarlierSelection(excluded)
    \/ \E u \in Usernames : EarlierReport(u, TRUE, NoError)
    \/ \E u \in Usernames : EarlierReport(u, FALSE, ErrTimeout)
    \/ \E single, multiple \in BOOLEAN : ScrapeInstagramPosts(single, multiple)
    \/ Process
    \/ \E isPrivate \in BOOLEAN, posts \in PostLists :
           ExecuteScrapeReturns(isPrivate, posts)
    \/ \E error \in AttemptErrors : ExecuteScrapeThrows(error)
    \/ WaitUntilFinished
    \/ \E u \in Usernames : RepairSessionClosed(u)
    \/ \E u \in Usernames, repair \in {"ok", "failed", "crashed"} :
           RepairSessionEnds(u, repair)

(***************************************************************************)
(* Batch mode: the controller calls InstagramScraperService.scrapeProfiles *)
(* directly (scraper.controller.ts, lines 100-134; part_002, lines         *)
(* 189-275), which hands all the targets without a result to one account   *)
(* at a time: processBatchWithBot (lines 281-373) scrapes them in windows  *)
(* of CONCURRENCY_LIMIT tabs, executeScrapeWithContext (lines 378-499).    *)
(***************************************************************************)
\* CONCURRENCY_LIMIT (line 296)
CONCURRENCY_LIMIT == 2
\* 'Maximum 5 profiles per batch' (line 209)
MaxProfilesPerBatch == 5
\* the bodies posted in batch mode: usernames
BatchRequests == {<<"a">>, <<"a", "b">>, <<"a", "b", "c">>,
                  <<"a", "b", "c", "d", "e", "f">>}
\* 'All parallel scrapes failed' (line 357)
ErrAllFailed == <<"A", "l", "l", " ", "p", "a", "r", "a", "l", "l", "e", "l",
                  " ", "s", "c", "r", "a", "p", "e", "s", " ", "f", "a", "i",
                  "l", "e", "d">>
\* messages of the errors executeScrapeWithContext can throw
BatchErrors == {ErrSessionInvalid}
\* posts left by the extraction and the date filter of one target
BatchPostLists == {<<"post_1">>}

\* a promise of the window that has not settled
Pending == NoOutcome

\* Array.prototype.slice(start) and slice(start, end)
Slice(s, start) == SubSeq(s, start + 1, Len(s))
\* mutant: the window takes every target that is left
SliceToEnd(s, start, end) == SubSeq(s, start + 1, Len(s))
SliceTo(s, start, end) ==
    SubSeq(s, start + 1, IF end < Len(s) THEN end ELSE Len(s))

\* every / some over an array of outcomes
AllFailed(rs) == \A i \in 1..Len(rs) : ~rs[i].success
AnyFailed(rs) == \E i \in 1..Len(rs) : ~rs[i].success

\* the return of scrapeProfiles (lines 263-274) as the controller answers
\* it (scraper.controller.ts, lines 107-133)
ScrapeProfilesReturns(names, res) ==
    /\ response' = [status |-> Ok,
                    success |-> (Len(res) = Len(names)
                                 /\ \A i \in 1..Len(res) : res[i].success),
                    results |-> res]
    /\ batchPc' = "responded"
    /\ batchAccount' = NoAccount
    /\ botUsernames' = <<>>

\* the while loop of scrapeProfiles from its test to the await inside
\* processBatchWithBot (lines 222-241 and 295-302), or to the return, on
\* the ledger state (f, exists)
ScrapeProfilesLoop(f, exists, names, failedBots, attempt, res, log) ==
    LET excluded == Excluded(failedBots)
        selection == IF attempt < totalAccounts /\ Len(res) < Len(names)
                     THEN LeastUsedIn(f, exists, excluded) ELSE NoAccount
    IN /\ results' = res
       /\ IF selection # NoAccount
          THEN /\ file' = FileAfterSelection(f, exists, excluded, now)
               /\ fileExists' = TRUE
               /\ batchAccount' = selection
               /\ botUsernames' = Slice(names, Len(res))
               /\ batchPc' = "launching"
               /\ batchLog' = Append(log, [account |-> selection,
                                           excluded |-> excluded,
                                           threw |-> FALSE])
               /\ UNCHANGED response
          ELSE /\ file' = f
               /\ fileExists' = exists
               /\ batchLog' = log
               /\ ScrapeProfilesReturns(names, res)

\* the scrapes of the window that starts at index i of the targets of the
\* account: batch.map(...) starts them all (lines 315-327)
WindowStarted(i) ==
    LET batch == SliceTo(botUsernames, i, i + CONCURRENCY_LIMIT) IN
    /\ windowIndex' = i
    /\ scrapePromises' = [k \in 1..Len(batch) |-> Pending]
    /\ fetchLog' = fetchLog \o
           [k \in 1..Len(batch) |->
               [username |-> batch[k], account |-> batchAccount,
                hadResult |-> \E n \in 1..Len(results) :
                                  results[n].username = batch[k]]]
    /\ batchPc' = "window"

\* scrapeProfiles(usernames), lines 205-241, called by the controller
ScrapeProfiles(names) ==
    /\ batchPc = "none" /\ jobState = "none"
    /\ IF Len(names) > MaxProfilesPerBatch
       THEN /\ response' = [status |-> BadRequest, success |-> FALSE,
                            results |-> <<>>]
            /\ batchPc' = "responded"
            /\ UNCHANGED <<file, fileExists, usernames, results,
                           currentBotAttempt, batchAccount, botUsernames,
                           batchLog, usageAtStart>>
       ELSE /\ usernames' = names
            /\ currentBotAttempt' = 0
            /\ usageAtStart' = [u \in Usernames |-> UsageOf(
                                   ReadRotationState(file, fileExists), u)]
            /\ ScrapeProfilesLoop(file, fileExists, names, <<>>, 0, <<>>, <<>>)
    /\ UNCHANGED <<failedBotUsernames, botResults, windowIndex, scrapePromises,
                   fetchLog, batchReports>>
    /\ UNCHANGED <<jobState, failedUsernames, attempts, attemptAccount,
                   jobResult, repairPc, repairResult, attemptLog, earlier>>
    /\ UNCHANGED <<helperVars, tabVars, poolVars, now, selected, folded, streak, qualified,
                   reported, lastCall>>

\* getBrowserForSession settles inside processBatchWithBot (line 302): with
\* the session the first window starts; a launch failure is thrown to
\* scrapeProfiles, whose catch (lines 250-260) remembers the account, starts
\* its repair and moves to the next account
SessionForBatch(launched) ==
    /\ batchPc = "launching"
    /\ IF launched
       THEN /\ WindowStarted(0)
            /\ botResults' = <<>>
            /\ UNCHANGED <<file, fileExists, results, failedBotUsernames,
                           currentBotAttempt, batchAccount, botUsernames,
                           batchLog, response, repairPc>>
       ELSE LET failed == Push(failedBotUsernames, batchAccount) IN
            /\ failedBotUsernames' = failed
            /\ repairPc' = [repairPc EXCEPT ![batchAccount] = "closing"]
            /\ currentBotAttempt' = currentBotAttempt + 1
            /\ ScrapeProfilesLoop(file, fileExists, usernames, failed,
                   currentBotAttempt + 1, results,
                   [batchLog EXCEPT ![Len(batchLog)].threw = TRUE])
            /\ UNCHANGED <<botResults, windowIndex, scrapePromises, fetchLog>>
    /\ UNCHANGED <<usernames, batchReports, usageAtStart>>
    /\ UNCHANGED <<jobState, failedUsernames, attempts, attemptAccount,
                   jobResult, repairResult, attemptLog, earlier>>
    /\ UNCHANGED <<helperVars, tabVars, poolVars, now, selected, folded, streak, qualified,
                   reported, lastCall>>

\* executeScrapeWithContext settles for target k of the window (lines
\* 386-499): it returns the private or the successful outcome, or throws
\* and the map callback turns the error into a failed outcome (lines
\* 329-339)
ExecuteScrapeWithContext(k, kind, posts, error) ==
    /\ batchPc = "window"
    /\ k \in 1..Len(scrapePromises)
    /\ scrapePromises[k] = Pending
    /\ LET username == botUsernames[windowIndex + k]
           outcome ==
             CASE kind = "success" ->
                    [success |-> TRUE, username |-> username, posts |-> posts,
                     scrapedWith |-> batchAccount, error |-> NoError]
               [] kind = "private" ->
                    [success |-> FALSE, username |-> username, posts |-> <<>>,
                     scrapedWith |-> batchAccount, error |-> ErrPrivate]
               [] OTHER ->
                    [success |-> FALSE, username |-> username, posts |-> <<>>,
                     scrapedWith |-> batchAccount, error |-> error]
       IN scrapePromises' = [scrapePromises EXCEPT ![k] = outcome]
    /\ UNCHANGED <<batchPc, usernames, results, failedBotUsernames,
                   currentBotAttempt, batchAccount, botUsernames, botResults,
                   windowIndex, fetchLog, batchLog, batchReports, usageAtStart>>
    /\ UNCHANGED <<singleVars, helperVars, tabVars, poolVars, ledgerVars>>

\* Promise.all of the window resolves (lines 343-360): its outcomes join the
\* results of the account; then either the pacing delay before the next
\* window, or the report to the ledger and the close of the session
PromiseAll ==
    /\ batchPc = "window"
    /\ \A k \in 1..Len(scrapePromises) : scrapePromises[k] # Pending
    /\ LET rs == botResults \o scrapePromises IN
       /\ botResults' = rs
       /\ IF windowIndex + CONCURRENCY_LIMIT < Len(botUsernames)
          THEN /\ batchPc' = "delay"
               /\ UNCHANGED <<file, fileExists, batchReports>>
          ELSE /\ batchPc' = "closing"
               /\ IF AllFailed(rs)
                  THEN /\ file' = FileAfterReport(file, fileExists, batchAccount,
                                      FALSE, ErrAllFailed, NowSeconds)
                       /\ fileExists' = TRUE
                       /\ batchReports' = Append(batchReports,
                              [account |-> batchAccount, success |-> FALSE,
                               outcomes |-> rs])
                  ELSE IF ~AnyFailed(rs)
                  THEN /\ file' = FileAfterReport(file, fileExists, batchAccount,
                                      TRUE, NoError, NowSeconds)
                       /\ fileExists' = TRUE
                       /\ batchReports' = Append(batchReports,
                              [account |-> batchAccount, success |-> TRUE,
                               outcomes |-> rs])
                  ELSE UNCHANGED <<file, fileExists, batchReports>>
    /\ UNCHANGED <<usernames, results, failedBotUsernames, currentBotAttempt,
                   batchAccount, botUsernames, windowIndex, scrapePromises,
                   fetchLog, batchLog, usageAtStart>>
    /\ UNCHANGED <<singleVars, helperVars, tabVars, poolVars, now, selected, folded, streak,
                   qualified, reported, lastCall>>

\* the pacing delay is over (line 348): the next window starts
HumanDelay ==
    /\ batchPc = "delay"
    /\ WindowStarted(windowIndex + CONCURRENCY_LIMIT)
    /\ UNCHANGED <<usernames, results, failedBotUsernames, currentBotAttempt,
                   batchAccount, botUsernames, botResults, batchLog,
                   batchReports, usageAtStart>>
    /\ UNCHANGED <<singleVars, helperVars, tabVars, poolVars, ledgerVars>>

\* closeBrowserForSession has settled (lines 365-372, an error is only
\* logged): processBatchWithBot returns its results, scrapeProfiles appends
\* them (line 243) and either returns or goes on with the next account
BatchSessionClosed ==
    /\ batchPc = "closing"
    /\ LET res == results \o botResults IN
       IF Len(res) >= Len(usernames)
       THEN /\ results' = res
            /\ ScrapeProfilesReturns(usernames, res)
            /\ UNCHANGED <<file, fileExists, currentBotAttempt, batchLog>>
       ELSE /\ currentBotAttempt' = currentBotAttempt + 1
            /\ ScrapeProfilesLoop(file, fileExists, usernames,
                   failedBotUsernames, currentBotAttempt + 1, res, batchLog)
    /\ UNCHANGED <<usernames, failedBotUsernames, botResults, windowIndex,
                   scrapePromises, fetchLog, batchReports, usageAtStart>>
    /\ UNCHANGED <<jobState, failedUsernames, attempts, attemptAccount,
                   jobResult, repairPc, repairResult, attemptLog, earlier>>
    /\ UNCHANGED <<helperVars, tabVars, poolVars, now, selected, folded, streak, qualified,
                   reported, lastCall>>

InitBatch ==
    /\ batchPc = "none"
    /\ usernames = <<>>
    /\ results = <<>>
    /\ failedBotUsernames = <<>>
    /\ currentBotAttempt = 0
    /\ batchAccount = NoAccount
    /\ botUsernames = <<>>
    /\ botResults = <<>>
    /\ windowIndex = 0
    /\ scrapePromises = <<>>
    /\ fetchLog = <<>>
    /\ batchLog = <<>>
    /\ batchReports = <<>>
    /\ usageAtStart = [u \in Usernames |-> 0]

\* one request in batch mode, after earlier selections on the ledger
NextBatch ==
    \/ \E excluded \in SUBSET Usernames : EarlierSelection(excluded)
    \/ \E names \in BatchRequests : ScrapeProfiles(names)
    \/ \E launched \in BOOLEAN : SessionForBatch(launched)
    \/ \E k \in 1..CONCURRENCY_LIMIT, kind \in {"success", "private", "thrown"},
          posts \in BatchPostLists, error \in BatchErrors :
           ExecuteScrapeWithContext(k, kind, posts, error)
    \/ PromiseAll
    \/ HumanDelay
    \/ BatchSessionClosed
    \/ \E u \in Usernames : RepairSessionClosed(u)
    \/ \E u \in Usernames, repair \in {"ok", "failed", "crashed"} :
           RepairSessionEnds(u, repair)

\* one request, in single mode or in batch mode
NextOrch == NextSingle \/ NextBatch

(***************************************************************************)
(* The tabs of a batch.  Every scrape of a window opens its own tab in the *)
(* context of the account (context.newPage(), line 389) and closes it in   *)
(* its finally (closePage, lines 486-498) before its promise settles.      *)
(* The targets of the account are numbered as in its `usernames`.          *)
(***************************************************************************)
Targets == 1..MaxProfilesPerBatch

\* the target that promise k of the window scrapes: absoluteIndex + 1
\* (line 319)
AbsoluteIndex(k) == windowIndex + k

\* the scrapes of the window that have not settled
Running == {k \in 1..Len(scrapePromises) : scrapePromises[k] = Pending}

WindowFrame ==
    /\ UNCHANGED <<poolVars, ledgerVars, singleVars, batchVars, tabVars>>
    /\ UNCHANGED <<admissionVars, extractVars, cacheVars, shutdownVars,
                   releaseVars>>

\* context.newPage() settles for scrape k of the window (lines 389-392):
\* the tab is open, or there is none and the scrape throws
ContextNewPage(k, opened) ==
    /\ batchPc = "window"
    /\ k \in Running
    /\ windowTabs[AbsoluteIndex(k)] = "none"
    /\ windowTabs' = [windowTabs EXCEPT ![AbsoluteIndex(k)] =
                          IF opened THEN "open" ELSE "failed"]
    /\ WindowFrame

\* the finally of executeScrapeWithContext (lines 486-498): closePage
\* closes the tab, however the scrape went
ClosePage(k) ==
    /\ batchPc = "window"
    /\ k \in Running
    /\ windowTabs[AbsoluteIndex(k)] = "open"
    /\ windowTabs' = [windowTabs EXCEPT ![AbsoluteIndex(k)] = "closed"]
    /\ WindowFrame

\* the promise of scrape k settles after its finally; without a tab the
\* scrape can only have thrown (line 391)
ExecuteScrapeWithContextSettles(k, kind, posts, error) ==
    /\ k \in Running
    /\ \/ windowTabs[AbsoluteIndex(k)] = "closed"
       \/ windowTabs[AbsoluteIndex(k)] = "failed" /\ kind = "thrown"
    /\ ExecuteScrapeWithContext(k, kind, posts, error)

InitWindows ==
    windowTabs = [n \in Targets |-> "none"]

\* one request in batch mode with the tabs of its scrapes
NextWindows ==
    \/ \E names \in BatchRequests : ScrapeProfiles(names)
    \/ \E launched \in BOOLEAN : SessionForBatch(launched)
    \/ \E k \in 1..MaxProfilesPerBatch, opened \in BOOLEAN :
           ContextNewPage(k, opened)
    \/ \E k \in 1..MaxProfilesPerBatch : ClosePage(k)
    \/ \E k \in 1..MaxProfilesPerBatch,
          kind \in {"success", "private", "thrown"},
          posts \in BatchPostLists, error \in BatchErrors :
           ExecuteScrapeWithContextSettles(k, kind, posts, error)
    \/ PromiseAll
    \/ HumanDelay
    \/ BatchSessionClosed
    \/ \E u \in Usernames : RepairSessionClosed(u)
    \/ \E u \in Usernames, repair \in {"ok", "failed", "crashed"} :
           RepairSessionEnds(u, repair)

(***************************************************************************)
(* The tab of a scrape attempt in single mode: executeScrape (part_002,    *)
(* lines 562-679) gets its page from BrowserService.createPage             *)
(* (browser.service.ts, lines 155-203) and closes it in its finally        *)
(* (lines 673-678); when it throws, the catch of scrapeProfile starts      *)
(* repairSession, which closes the session of the account (lines 542,      *)
(* 696-701).  Each call of getBrowserForSession of the pool is here the    *)
(* one made by createPage for an attempt; the explicit close of the        *)
(* "repairSession" caller is the one of the repair.                        *)
(***************************************************************************)
Tabs == 1..MaxTabs
NoTab == 0

\* context.pages() (line 168): the open tabs of a live context
PagesOf(i) ==
    IF instState[i] = "live"
    THEN {t \in Tabs : tabState[t] = "open" /\ tabInst[t] = i}
    ELSE {}
\* pages[0]: the oldest open tab
FirstPage(i) == CHOOSE t \in PagesOf(i) : \A t2 \in PagesOf(i) : t <= t2

\* the tab is open in a context that is still there
TabIsOpen(t) == tabState[t] = "open" /\ instState[tabInst[t]] = "live"

\* the call of getBrowserForSession is over for its caller (as CallReturns)
CallIsOver(c) ==
    /\ callPc' = [callPc EXCEPT ![c] = "idle"]
    /\ callKey' = [callKey EXCEPT ![c] = NoDir]
    /\ callJoined' = [callJoined EXCEPT ![c] = NoInstance]
    /\ callGot' = [callGot EXCEPT ![c] = NoInstance]

\* scrapeProfile's catch calls repairSession, which runs to the await of
\* closeBrowserForSession(sessionDir) (part_002 lines 542 and 697-701;
\* browser.service.ts lines 221-225): with no entry for the directory the
\* close does nothing
RepairSessionCloses(k) ==
    IF browserInstances[k] = NoInstance
    THEN UNCHANGED <<closePc, closeKey, closeInst>>
    ELSE /\ closePc["repairSession"] = "idle"
         /\ closePc' = [closePc EXCEPT !["repairSession"] = "awaitClose"]
         /\ closeKey' = [closeKey EXCEPT !["repairSession"] = k]
         /\ closeInst' = [closeInst EXCEPT !["repairSession"] = browserInstances[k]]

\* executeScrape starts an attempt on the session of its account: it
\* calls createPage, which calls getBrowserForSession (part_002 line 584,
\* browser.service.ts line 165)
ExecuteScrape(c, k) ==
    /\ scrapePc[c] = "idle"
    /\ GetBrowserForSession(c, k)

\* createPage after getBrowserForSession has returned (lines 165-175): the
\* first open tab of the context is reused, or a new one is opened; when
\* the context is gone by now, newPage rejects and the attempt fails
\* without a tab
CreatePageGetsPage(c) ==
    /\ microtasks = {}
    /\ callPc[c] = "done"
    /\ scrapePc[c] = "idle"
    /\ LET i == callGot[c] k == callKey[c] IN
       /\ scrapeKey' = [scrapeKey EXCEPT ![c] = k]
       /\ IF instState[i] # "live"
          THEN /\ RepairSessionCloses(k)
               /\ UNCHANGED <<scrapePc, scrapePage, tabState, tabInst, nextTab>>
          ELSE /\ UNCHANGED <<closePc, closeKey, closeInst>>
               /\ scrapePc' = [scrapePc EXCEPT ![c] = "navigating"]
               /\ IF PagesOf(i) # {}
                  THEN /\ scrapePage' = [scrapePage EXCEPT ![c] = FirstPage(i)]
                       /\ UNCHANGED <<tabState, tabInst, nextTab>>
                  ELSE /\ nextTab <= MaxTabs
                       /\ scrapePage' = [scrapePage EXCEPT ![c] = nextTab]
                       /\ tabState' = [tabState EXCEPT ![nextTab] = "open"]
                       /\ tabInst' = [tabInst EXCEPT ![nextTab] = i]
                       /\ nextTab' = nextTab + 1
    /\ CallIsOver(c)
    /\ UNCHANGED <<browserInstances, launchingInstances, instState, instKey,
                   closeEvents, nextInst, microtasks>>
    /\ UNCHANGED <<ledgerVars, singleVars, batchVars, helperVars>>

\* getBrowserForSession has thrown (the launch failed): createPage and
\* executeScrape throw with no page, the repair starts
CreatePageWithoutSession(c) ==
    /\ microtasks = {}
    /\ callPc[c] = "failed"
    /\ RepairSessionCloses(callKey[c])
    /\ CallIsOver(c)
    /\ UNCHANGED <<browserInstances, launchingInstances, instState, instKey,
                   closeEvents, nextInst, microtasks>>
    /\ UNCHANGED <<scrapePc, scrapeKey, scrapePage, tabState, tabInst, nextTab>>
    /\ UNCHANGED <<ledgerVars, singleVars, batchVars, helperVars>>

\* createPage throws after it got its page (setExtraHTTPHeaders, the init
\* script or page.goto rejects, lines 183-200): executeScrape never
\* receives the page (line 584), so its finally (lines 675-677) has nothing
\* to close; the repair starts
CreatePageThrows(c) ==
    /\ microtasks = {}
    /\ scrapePc[c] = "navigating"
    /\ scrapePc' = [scrapePc EXCEPT ![c] = "idle"]
    /\ scrapePage' = [scrapePage EXCEPT ![c] = NoTab]
    /\ RepairSessionCloses(scrapeKey[c])
    /\ UNCHANGED <<browserInstances, launchingInstances, instState, instKey,
                   closeEvents, nextInst, callPc, callKey, callJoined, callGot,
                   microtasks>>
    /\ UNCHANGED <<scrapeKey, tabState, tabInst, nextTab>>
    /\ UNCHANGED <<ledgerVars, singleVars, batchVars, helperVars>>

\* createPage returns the page (line 202) and executeScrape goes on
CreatePageReturns(c) ==
    /\ microtasks = {}
    /\ scrapePc[c] = "navigating"
    /\ scrapePc' = [scrapePc EXCEPT ![c] = "scraping"]
    /\ UNCHANGED <<scrapeKey, scrapePage, tabState, tabInst, nextTab>>
    /\ UNCHANGED <<poolVars, ledgerVars, singleVars, batchVars, helperVars>>

\* executeScrape ends (lines 587-678): it returns an outcome (success or
\* private profile) or throws (login wall, title, extraction); its finally
\* closes the page (closePage, browser.service.ts lines 208-216); after a
\* throw the repair starts
ExecuteScrapeEnds(c, thrown) ==
    /\ microtasks = {}
    /\ scrapePc[c] = "scraping"
    /\ scrapePc' = [scrapePc EXCEPT ![c] = "idle"]
    /\ tabState' = [tabState EXCEPT ![scrapePage[c]] = "closed"]
    /\ scrapePage' = [scrapePage EXCEPT ![c] = NoTab]
    /\ IF thrown THEN RepairSessionCloses(scrapeKey[c])
                 ELSE UNCHANGED <<closePc, closeKey, closeInst>>
    /\ UNCHANGED <<browserInstances, launchingInstances, instState, instKey,
                   closeEvents, nextInst, callPc, callKey, callJoined, callGot,
                   microtasks>>
    /\ UNCHANGED <<scrapeKey, tabInst, nextTab>>
    /\ UNCHANGED <<ledgerVars, singleVars, batchVars, helperVars>>

InitTabs ==
    /\ scrapePc = [c \in Calls |-> "idle"]
    /\ scrapeKey = [c \in Calls |-> NoDir]
    /\ scrapePage = [c \in Calls |-> NoTab]
    /\ tabState = [t \in Tabs |-> "unused"]
    /\ tabInst = [t \in Tabs |-> NoInstance]
    /\ nextTab = 1

\* scrape attempts of single mode on the session pool; sessions are also
\* closed by the end of a batch and by the driver
NextTabs ==
    \/ \E c \in Calls, k \in SessionDirs : ExecuteScrape(c, k)
    \/ \E i \in Instances : LaunchSucceeds(i)
    \/ \E i \in Instances : LaunchFails(i)
    \/ \E c \in Calls : WaiterResumes(c)
    \/ \E i \in Instances : BrowserDisconnects(i)
    \/ \E i \in Instances : CloseEvent(i)
    \/ \E k \in SessionDirs : CloseBrowserForSession("processBatchWithBot", k)
    \/ \E d \in CloseCalls : ContextCloseSettles(d)
    \/ \E c \in Calls : CreatePageGetsPage(c)
    \/ \E c \in Calls : CreatePageWithoutSession(c)
    \/ \E c \in Calls : CreatePageThrows(c)
    \/ \E c \in Calls : CreatePageReturns(c)
    \/ \E c \in Calls, thrown \in BOOLEAN : ExecuteScrapeEnds(c, thrown)

(***************************************************************************)
(* The session of a batch: processBatchWithBot gets the session of its     *)
(* account before the first window (part_002 line 302) and closes it after *)
(* the last (lines 364-370, browser.service.ts lines 221-231).  The        *)
(* windows in between do not touch the pool.  Other requests and repairs   *)
(* use the pool at the same time.                                          *)
(***************************************************************************)
\* the call of getBrowserForSession that processBatchWithBot makes
BatchCall == 1

ReleaseFrame ==
    /\ UNCHANGED <<ledgerVars, singleVars, batchVars, tabVars>>
    /\ UNCHANGED <<admissionVars, extractVars, cacheVars, shutdownVars,
                   windowVars>>

\* processBatchWithBot calls getBrowserForSession(sessionDir) (line 302)
ProcessBatchWithBot(k) ==
    /\ batchPhase = "idle"
    /\ GetBrowserForSession(BatchCall, k)

\* a call of another request
GetBrowserForAttempt(c, k) ==
    /\ c # BatchCall
    /\ GetBrowserForSession(c, k)

\* ... and its return
AttemptCallReturns(c) ==
    /\ c # BatchCall
    /\ CallReturns(c)

\* getBrowserForSession has returned the session (line 302): the windows
\* run; or it has thrown, and processBatchWithBot throws with it
BatchGetsSession ==
    /\ microtasks = {}
    /\ batchPhase = "idle"
    /\ callPc[BatchCall] \in {"done", "failed"}
    /\ IF callPc[BatchCall] = "done"
       THEN /\ batchPhase' = "working"
            /\ batchHeld' = callGot[BatchCall]
            /\ batchDir' = callKey[BatchCall]
       ELSE /\ batchPhase' = "thrown"
            /\ UNCHANGED <<batchHeld, batchDir>>
    /\ CallIsOver(BatchCall)
    /\ UNCHANGED <<browserInstances, launchingInstances, instState, instKey,
                   closeEvents, nextInst, microtasks, closePc, closeKey,
                   closeInst>>
    /\ ReleaseFrame

\* every target has its outcome: closeBrowserForSession(sessionDir) is
\* called (line 366) and runs to the await of context.close(); with no
\* entry for the directory it returns at once (browser.service.ts lines
\* 222-223) and processBatchWithBot returns its results (line 372)
BatchClosesSession ==
    /\ microtasks = {}
    /\ batchPhase = "working"
    /\ IF browserInstances[batchDir] = NoInstance
       THEN /\ batchPhase' = "returned"
            /\ UNCHANGED <<closePc, closeKey, closeInst>>
       ELSE /\ closePc["processBatchWithBot"] = "idle"
            /\ batchPhase' = "closing"
            /\ closePc' = [closePc EXCEPT !["processBatchWithBot"] = "awaitClose"]
            /\ closeKey' = [closeKey EXCEPT !["processBatchWithBot"] = batchDir]
            /\ closeInst' = [closeInst EXCEPT !["processBatchWithBot"] =
                                 browserInstances[batchDir]]
    /\ UNCHANGED <<batchHeld, batchDir>>
    /\ UNCHANGED <<browserInstances, launchingInstances, instState, instKey,
                   closeEvents, nextInst, callPc, callKey, callJoined, callGot,
                   microtasks>>
    /\ ReleaseFrame

\* closeBrowserForSession has returned to processBatchWithBot (line 367),
\* which returns its results (line 372)
ProcessBatchWithBotReturns ==
    /\ batchPhase = "closing"
    /\ closePc["processBatchWithBot"] = "idle"
    /\ batchPhase' = "returned"
    /\ UNCHANGED <<batchHeld, batchDir>>
    /\ UNCHANGED poolVars
    /\ ReleaseFrame

InitRelease ==
    /\ batchPhase = "idle"
    /\ batchHeld = NoInstance
    /\ batchDir = NoDir

\* a batch on the session pool, among the calls of other requests, the
\* repairs and the driver
NextRelease ==
    \/ \E k \in SessionDirs : ProcessBatchWithBot(k)
    \/ \E c \in Calls, k \in SessionDirs : GetBrowserForAttempt(c, k)
    \/ \E c \in Calls : AttemptCallReturns(c)
    \/ \E i \in Instances : LaunchSucceeds(i)
    \/ \E i \in Instances : LaunchFails(i)
    \/ \E c \in Calls : WaiterResumes(c)
    \/ \E i \in Instances : BrowserDisconnects(i)
    \/ \E i \in Instances : CloseEvent(i)
    \/ \E k \in SessionDirs : CloseBrowserForSession("repairSession", k)
    \/ \E d \in CloseCalls : ContextCloseSettles(d)
    \/ BatchGetsSession
    \/ BatchClosesSession
    \/ ProcessBatchWithBotReturns

(***************************************************************************)
(* Admission control: ConcurrencyService (part_000).  The service is a     *)
(* provider of the scraper module (part_002 lines 9-15); its callers are   *)
(* any requests.                                                           *)
(***************************************************************************)
Requesters == 1..NRequesters
\* HttpStatus.TOO_MANY_REQUESTS
TooManyRequests == 429
NoAdmission == [op |-> "none", by |-> 0, before |-> 0, status |-> Ok]

\* the constructor (lines 14-19): one slot per configured account, one
\* when no account is configured
MaxConcurrentFor(n) == IF n > 0 THEN n ELSE 1

\* mutant: the limit is not checked
AcquireUnchecked(active, max) ==
    [activeRequests |-> active + 1, status |-> Ok]
\* acquire (lines 25-40): what it leaves in the counter and how it ends
AcquireOutcome(active, max) ==
    IF active >= max
    THEN [activeRequests |-> active, status |-> TooManyRequests]
    ELSE [activeRequests |-> active + 1, status |-> Ok]

\* mutant: the counter is decremented whatever its value
ReleaseUnfloored(active) == active - 1
\* release (lines 45-50)
ReleaseOutcome(active) == IF active > 0 THEN active - 1 ELSE active

Acquire(r) ==
    /\ LET out == AcquireOutcome(activeRequests, maxConcurrent) IN
       /\ activeRequests' = out.activeRequests
       /\ lastAdmission' = [op |-> "acquire", by |-> r,
                            before |-> activeRequests, status |-> out.status]
       /\ admitted' = IF out.status = Ok
                      THEN [admitted EXCEPT ![r] = TRUE]
                      ELSE admitted
    /\ UNCHANGED maxConcurrent
    /\ UNCHANGED <<extractVars, cacheVars, lifecycleVars>>
    /\ UNCHANGED <<poolVars, ledgerVars, singleVars, batchVars, tabVars>>

Release(r) ==
    /\ activeRequests' = ReleaseOutcome(activeRequests)
    /\ lastAdmission' = [op |-> "release", by |-> r,
                         before |-> activeRequests, status |-> Ok]
    /\ admitted' = [admitted EXCEPT ![r] = FALSE]
    /\ UNCHANGED maxConcurrent
    /\ UNCHANGED <<extractVars, cacheVars, lifecycleVars>>
    /\ UNCHANGED <<poolVars, ledgerVars, singleVars, batchVars, tabVars>>

\* the service constructed with n accounts configured
InitAdmissionWith(n) ==
    /\ activeRequests = 0
    /\ maxConcurrent = MaxConcurrentFor(n)
    /\ admitted = [r \in Requesters |-> FALSE]
    /\ lastAdmission = NoAdmission

InitAdmission == InitAdmissionWith(Len(accounts))

NextAdmission ==
    \/ \E r \in Requesters : Acquire(r)
    \/ \E r \in Requesters : Release(r)

(***************************************************************************)
(* Extraction: InstagramScraperService.scrapePostsFromPage (part_002,      *)
(* lines 780-913) and the end of the attempt that called it (executeScrape *)
(* lines 627-668, executeScrapeWithContext lines 455-481,                  *)
(* processBatchWithBot line 325).  A node keeps the fields the algorithm   *)
(* reads; a missing field is "" or 0, which JavaScript tests like          *)
(* undefined.  An optional number is the set of its values.                *)
(***************************************************************************)
\* config 'maxPostsPerRequest' (the source's default is 50)
maxPostsPerRequest == 3
STALE_SCROLL_THRESHOLD == 5

Node(id, code, taken_at, caption_created_at) ==
    [id |-> id, code |-> code, taken_at |-> taken_at,
     caption_created_at |-> caption_created_at]
NodeA == Node("1", "A", 30, 0)
NodeB == Node("2", "B", 20, 0)
\* no taken_at: the time of the caption is used, the same as NodeB's
NodeC == Node("3", "C", 0, 20)
NodeD == Node("4", "D", 10, 0)
\* no id, no code, no time
NodeNoId == Node("", "E", 40, 0)
NodeNoCode == Node("6", "", 40, 0)
NodeNoTime == Node("7", "G", 0, 0)

\* the edges of the timeline payloads the page may answer with
Payloads ==
    { <<>>,
      <<NodeD, NodeA, NodeD>>,
      <<NodeA, NodeB>>,
      <<NodeB, NodeC>>,
      <<NodeNoId, NodeNoCode, NodeNoTime>> }

\* the maxPosts of the request; 0 stands for none given
MaxPostsArgs == {0, 1, 2}

None == {}
Some(n) == {n}
\* a JavaScript number that is not undefined, not 0
Truthy(opt) == opt # None /\ opt # Some(0)
\* the createdAt of the request and the createdAtMap of a batch request
CreatedAtArgs == {None, Some(0), Some(10), Some(20)}
CreatedAtMaps ==
    { <<>>,
      [u \in {"a"} |-> 20],
      [u \in {"a"} |-> 0],
      [u \in {"b"} |-> 20] }

\* the reduce of lines 831-832
RECURSIVE EdgeCount(_)
EdgeCount(responses) ==
    IF responses = <<>> THEN 0
    ELSE Len(Head(responses)) + EdgeCount(Tail(responses))

\* cleanNode (lines 918-1024): null for a node without id or code
NullPost == [id |-> "", shortcode |-> "", createdAt |-> 0]
CleanNode(node) ==
    IF node.id = "" \/ node.code = "" THEN NullPost
    ELSE [id |-> node.id,
          shortcode |-> node.code,
          createdAt |-> IF node.taken_at # 0 THEN node.taken_at
                        ELSE IF node.caption_created_at # 0
                             THEN node.caption_created_at
                             ELSE 0]

\* mutant: the set of ids seen is not consulted
SeenIgnored(uniqueIds, id) == FALSE
\* uniqueIds.has(node.id) (line 880)
Seen(uniqueIds, id) == id \in uniqueIds

\* the loops of lines 871-889 over the edges of one payload and over the
\* payloads, with `posts` and `uniqueIds` as they stand
RECURSIVE CollectEdges(_, _, _)
CollectEdges(edges, posts, uniqueIds) ==
    IF edges = <<>> THEN [posts |-> posts, uniqueIds |-> uniqueIds]
    ELSE LET node == Head(edges) IN
         IF node.id = "" \/ Seen(uniqueIds, node.id)
         THEN CollectEdges(Tail(edges), posts, uniqueIds)
         ELSE IF CleanNode(node) = NullPost
              THEN CollectEdges(Tail(edges), posts, uniqueIds)
              ELSE CollectEdges(Tail(edges), Append(posts, CleanNode(node)),
                                uniqueIds \cup {node.id})

RECURSIVE CollectResponses(_, _, _)
CollectResponses(responses, posts, uniqueIds) ==
    IF responses = <<>> THEN posts
    ELSE LET c == CollectEdges(Head(responses), posts, uniqueIds) IN
         CollectResponses(Tail(responses), c.posts, c.uniqueIds)

\* posts.sort((a, b) => b.createdAt - a.createdAt) (line 892): a stable
\* sort, each post goes after the posts that are not older than it
RECURSIVE InsertByCreatedAt(_, _)
InsertByCreatedAt(sorted, p) ==
    IF sorted = <<>> THEN <<p>>
    ELSE IF Head(sorted).createdAt >= p.createdAt
         THEN <<Head(sorted)>> \o InsertByCreatedAt(Tail(sorted), p)
         ELSE <<p>> \o sorted

RECURSIVE SortByCreatedAt(_, _)
SortByCreatedAt(posts, sorted) ==
    IF posts = <<>> THEN sorted
    ELSE SortByCreatedAt(Tail(posts), InsertByCreatedAt(sorted, Head(posts)))

\* mutant: the posts are truncated as they were encountered
TruncatedUnsorted(posts, lim) == SliceTo(posts, 0, lim)
\* lines 892 and 912: sort, then posts.slice(0, limit)
SortedAndTruncated(posts, lim) == SliceTo(SortByCreatedAt(posts, <<>>), 0, lim)

\* mutant: the filter keeps the posts that are not older than the threshold
FilterByDateInclusive(posts, createdAt) ==
    IF Truthy(createdAt)
    THEN SelectSeq(posts, LAMBDA p : \E t \in createdAt : p.createdAt >= t)
    ELSE posts
\* lines 646-650 and 462-466: `if (createdAt)` and the filter
FilterByDate(posts, createdAt) ==
    IF Truthy(createdAt)
    THEN SelectSeq(posts, LAMBDA p : \E t \in createdAt : p.createdAt > t)
    ELSE posts

\* createdAtMap?.[username] ?? createdAt (line 325)
ProfileCreatedAt(createdAtMap, username, createdAt) ==
    IF username \in DOMAIN createdAtMap THEN Some(createdAtMap[username])
    ELSE createdAt

NoExtraction == [posts |-> <<>>, graphqlCaptured |-> FALSE, made |-> FALSE]
NoMap == <<>>
NoScrapeOutcome ==
    [success |-> FALSE, posts |-> <<>>, postsCount |-> 0,
     graphqlCaptured |-> FALSE, mode |-> "none",
     createdAtMap |-> NoMap, createdAt |-> None]

\* currentPostCount >= limit (line 835)
LimitReached(count, lim) == count >= lim

\* one pass of the while loop from its top to the scroll it starts or to
\* its break (lines 829-856); `scrolls` is scrollAttempts at this point
WhileTrue(scrolls) ==
    LET currentPostCount == EdgeCount(graphqlResponses) IN
    /\ scrollAttempts' = scrolls
    /\ IF LimitReached(currentPostCount, limit)
       THEN /\ extractPc' = "finalWait"
            /\ stopped' = "limit"
            /\ UNCHANGED <<lastPostCount, noNewPostsCount>>
       ELSE IF currentPostCount = lastPostCount
            THEN /\ noNewPostsCount' = noNewPostsCount + 1
                 /\ IF noNewPostsCount + 1 >= STALE_SCROLL_THRESHOLD
                    THEN /\ extractPc' = "finalWait"
                         /\ stopped' = "stale"
                         /\ UNCHANGED lastPostCount
                    ELSE /\ extractPc' = "scroll"
                         /\ lastPostCount' = currentPostCount
                         /\ UNCHANGED stopped
            ELSE /\ noNewPostsCount' = 0
                 /\ lastPostCount' = currentPostCount
                 /\ extractPc' = "scroll"
                 /\ UNCHANGED stopped

ExtractFrame ==
    /\ UNCHANGED <<admissionVars, cacheVars, lifecycleVars>>
    /\ UNCHANGED <<poolVars, ledgerVars, singleVars, batchVars, tabVars>>

\* the call: the limit, the listener, the reload (lines 785-817)
ScrapePostsFromPage(maxPosts) ==
    /\ extractPc = "idle"
    /\ extractPc' = "reload"
    /\ limit' = IF maxPosts # 0 THEN maxPosts ELSE maxPostsPerRequest
    \* page.on('response', responseHandler) (line 813)
    /\ responseListeners' = responseListeners \cup {"responseHandler"}
    /\ UNCHANGED <<graphqlResponses, scrollAttempts, lastPostCount,
                   noNewPostsCount, extracted, scrapeOutcome, stopped,
                   gotData, staleScrolls>>
    /\ ExtractFrame

\* responseHandler (lines 793-811) for a response with timeline edges,
\* while the function waits with the listener attached
ResponseHandler(edges) ==
    /\ extractPc \in {"reload", "scroll", "finalWait"}
    /\ Len(graphqlResponses) < MaxPayloads
    /\ graphqlResponses' = Append(graphqlResponses, edges)
    /\ gotData' = (gotData \/ Len(edges) > 0)
    /\ UNCHANGED <<extractPc, limit, scrollAttempts, lastPostCount,
                   noNewPostsCount, extracted, scrapeOutcome, stopped,
                   staleScrolls>>
    /\ UNCHANGED responseListeners
    /\ ExtractFrame

\* the reload and the wait after it are over (lines 817-818): the loop
\* is entered
Reloaded ==
    /\ extractPc = "reload"
    /\ WhileTrue(0)
    /\ gotData' = FALSE
    /\ staleScrolls' = 0
    /\ UNCHANGED <<limit, graphqlResponses, extracted, scrapeOutcome>>
    /\ UNCHANGED responseListeners
    /\ ExtractFrame

\* the scroll and the wait after it are over (lines 856-859): next pass
Scrolled ==
    /\ extractPc = "scroll"
    /\ WhileTrue(scrollAttempts + 1)
    /\ staleScrolls' = IF gotData THEN 0 ELSE staleScrolls + 1
    /\ gotData' = FALSE
    /\ UNCHANGED <<limit, graphqlResponses, extracted, scrapeOutcome>>
    /\ UNCHANGED responseListeners
    /\ ExtractFrame

\* page.reload or page.mouse.wheel rejects: the function throws
PageRejects ==
    /\ extractPc \in {"reload", "scroll"}
    /\ extractPc' = "thrown"
    /\ UNCHANGED <<limit, graphqlResponses, scrollAttempts, lastPostCount,
                   noNewPostsCount, extracted, scrapeOutcome, stopped,
                   gotData, staleScrolls>>
    /\ UNCHANGED responseListeners
    /\ ExtractFrame

\* mutant: an extraction that captured nothing throws
NeverCapturedThrows(responses) ==
    IF responses = <<>> THEN "thrown" ELSE "extracted"
\* lines 894-906: with nothing captured a warning is logged, no more
NeverCapturedWarns(responses) == "extracted"

\* after the final wait: dedupe, sort, truncate, return (lines 863-912)
ScrapePostsFromPageReturns ==
    /\ extractPc = "finalWait"
    /\ extractPc' = NeverCapturedWarns(graphqlResponses)
    /\ extracted' =
          [posts |-> SortedAndTruncated(
                         CollectResponses(graphqlResponses, <<>>, {}), limit),
           graphqlCaptured |-> Len(graphqlResponses) > 0,
           made |-> TRUE]
    \* page.off('response', responseHandler) (line 909)
    /\ responseListeners' = responseListeners \ {"responseHandler"}
    /\ UNCHANGED <<limit, graphqlResponses, scrollAttempts, lastPostCount,
                   noNewPostsCount, scrapeOutcome, stopped, gotData,
                   staleScrolls>>
    /\ ExtractFrame

\* the outcome built from the extraction (lines 646-668 and 462-481);
\* mode, createdAtMap and createdAt record the call
OutcomeOf(ex, threshold, mode, createdAtMap, createdAt) ==
    LET filteredPosts == FilterByDate(ex.posts, threshold) IN
    [success |-> TRUE, posts |-> filteredPosts,
     postsCount |-> Len(filteredPosts),
     graphqlCaptured |-> ex.graphqlCaptured,
     mode |-> mode, createdAtMap |-> createdAtMap, createdAt |-> createdAt]

\* executeScrape after the extraction (lines 628-668)
ExecuteScrapeFilters(createdAt) ==
    /\ extractPc = "extracted"
    /\ extractPc' = "returned"
    /\ scrapeOutcome' = OutcomeOf(extracted, createdAt, "single", NoMap, createdAt)
    /\ UNCHANGED <<limit, graphqlResponses, scrollAttempts, lastPostCount,
                   noNewPostsCount, extracted, stopped, gotData, staleScrolls>>
    /\ UNCHANGED responseListeners
    /\ ExtractFrame

\* processBatchWithBot choosing the threshold of the target (line 325)
\* and executeScrapeWithContext after the extraction (lines 456-481)
ExecuteScrapeWithContextFilters(createdAtMap, createdAt) ==
    /\ extractPc = "extracted"
    /\ extractPc' = "returned"
    /\ scrapeOutcome' =
          OutcomeOf(extracted,
                    ProfileCreatedAt(createdAtMap, Target, createdAt), "batch",
                    createdAtMap, createdAt)
    /\ UNCHANGED <<limit, graphqlResponses, scrollAttempts, lastPostCount,
                   noNewPostsCount, extracted, stopped, gotData, staleScrolls>>
    /\ UNCHANGED responseListeners
    /\ ExtractFrame

\* scrapeProfile's attempt reaches the extraction (line 628)
ExecuteScrapeExtracts(maxPosts) ==
    /\ jobState = "active"
    /\ ScrapePostsFromPage(maxPosts)

\* the attempt fails before the extraction, or because the page rejected
\* during it
ExecuteScrapeFails(error) ==
    /\ extractPc \in {"idle", "thrown"}
    /\ ExecuteScrapeThrows(error)

\* the attempt returns the posts extracted and filtered (lines 646-668)
ExecuteScrapeSucceeds(createdAt) ==
    /\ extractPc = "extracted"
    /\ ExecuteScrapeReturns(FALSE, FilterByDate(extracted.posts, createdAt))

InitExtract ==
    /\ extractPc = "idle"
    /\ limit = 0
    /\ graphqlResponses = <<>>
    /\ scrollAttempts = 0
    /\ lastPostCount = 0
    /\ noNewPostsCount = 0
    /\ extracted = NoExtraction
    /\ scrapeOutcome = NoScrapeOutcome
    /\ stopped = "no"
    /\ gotData = FALSE
    /\ staleScrolls = 0
    /\ responseListeners = {}

NextExtract ==
    \/ \E maxPosts \in MaxPostsArgs : ScrapePostsFromPage(maxPosts)
    \/ \E edges \in Payloads : ResponseHandler(edges)
    \/ Reloaded
    \/ Scrolled
    \/ PageRejects
    \/ ScrapePostsFromPageReturns
    \/ \E createdAt \in CreatedAtArgs : ExecuteScrapeFilters(createdAt)
    \/ \E createdAtMap \in CreatedAtMaps, createdAt \in CreatedAtArgs :
           ExecuteScrapeWithContextFilters(createdAtMap, createdAt)

(***************************************************************************)
(* The result cache: CacheService (part_002, lines 1029-1092), a provider  *)
(* of the scraper module (part_002 lines 9-15); its callers are any.       *)
(* Date.now() is the clock `now` of the ledger.                            *)
(***************************************************************************)
TTL_MS == 600000
\* usernames as the callers write them
CacheNames == {<<"N", "a">>, <<"n", "a">>, <<"n", "A">>, <<"a">>}
\* the target of the request in single mode, as characters
TargetName == <<"a">>
CacheResults == {"result_1", "result_2"}
\* Map.get() returning undefined, and the null of get
NoEntry == [result |-> "undefined", timestamp |-> 0]
Null == "null"
\* the steps of the clock: half a TTL, and a millisecond more
ClockSteps == {TTL_MS \div 2, TTL_MS \div 2 + 1}

\* username.toLowerCase() (lines 1050, 1057, 1070)
Key(username) == ToLowerCase(username)

\* mutant: an entry never expires
ExpiredNever(age) == FALSE
\* age > this.TTL_MS (line 1056)
Expired(age) == age > TTL_MS

CacheFrame ==
    /\ UNCHANGED <<admissionVars, extractVars, lifecycleVars>>
    /\ UNCHANGED <<poolVars, singleVars, batchVars, tabVars>>
    /\ UNCHANGED <<file, fileExists, selected, folded, streak, qualified,
                   reported, lastCall>>

\* get (lines 1049-1064)
CacheGet(username) ==
    /\ LET entry == cache[Key(username)] IN
       IF entry = NoEntry
       THEN /\ lastCache' = [op |-> "get", username |-> username,
                             returned |-> Null]
            /\ UNCHANGED cache
       ELSE IF Expired(now - entry.timestamp)
            THEN /\ cache' = [cache EXCEPT ![Key(username)] = NoEntry]
                 /\ lastCache' = [op |-> "get", username |-> username,
                                  returned |-> Null]
            ELSE /\ lastCache' = [op |-> "get", username |-> username,
                                  returned |-> entry.result]
                 /\ UNCHANGED cache
    /\ UNCHANGED now
    /\ CacheFrame

\* set (lines 1069-1075)
CacheSet(username, result) ==
    /\ cache' = [cache EXCEPT ![Key(username)] =
                     [result |-> result, timestamp |-> now]]
    /\ lastCache' = [op |-> "set", username |-> username, returned |-> Null]
    /\ UNCHANGED now
    /\ CacheFrame

\* time passes
ClockAdvances(d) ==
    /\ now + d <= MaxTtls * TTL_MS
    /\ now' = now + d
    /\ UNCHANGED <<cache, lastCache>>
    /\ CacheFrame

CacheKeys == CacheNames \cup {ToLowerCase(n) : n \in CacheNames}

InitCache ==
    /\ cache = [k \in CacheKeys |-> NoEntry]
    /\ lastCache = [op |-> "none", username |-> <<>>, returned |-> Null]

\* one request in single mode with the extraction of one of its attempts
NextScrape ==
    \/ ScrapeInstagramPosts(TRUE, FALSE)
    \/ Process
    \/ \E error \in AttemptErrors : ExecuteScrapeFails(error)
    \/ ExecuteScrapeExtracts(1)
    \/ ResponseHandler(<<NodeA, NodeB>>)
    \/ Reloaded
    \/ Scrolled
    \/ PageRejects
    \/ ScrapePostsFromPageReturns
    \/ \E createdAt \in {None, Some(20)} : ExecuteScrapeSucceeds(createdAt)
    \/ WaitUntilFinished
    \/ \E u \in Usernames : RepairSessionClosed(u)
    \/ \E u \in Usernames : RepairSessionEnds(u, "ok")

\* one request in single mode while the cache and the admission control
\* are used by others (scraper.controller.ts lines 54-178 call neither)
NextCachedRequest ==
    \/ CacheSet(TargetName, "result_1")
    \/ \E d \in ClockSteps : ClockAdvances(d)
    \/ Acquire(1)
    \/ \E single, multiple \in BOOLEAN : ScrapeInstagramPosts(single, multiple)
    \/ Process
    \/ \E posts \in PostLists : ExecuteScrapeReturns(FALSE, posts)
    \/ ExecuteScrapeThrows(ErrSessionInvalid)
    \/ WaitUntilFinished

NextCache ==
    \/ \E username \in CacheNames : CacheGet(username)
    \/ \E username \in CacheNames, result \in CacheResults :
           CacheSet(username, result)
    \/ \E d \in ClockSteps : ClockAdvances(d)

vars == <<poolVars, ledgerVars, orchVars>>

InitServices ==
    InitPool /\ InitLedger /\ InitSingle /\ InitBatch /\ InitTabs
        /\ InitExtract /\ InitCache /\ InitShutdown /\ InitWindows
        /\ InitRelease

Init == InitServices /\ InitAdmission

\* any number of the accounts configured, none included
InitAnyConfiguration ==
    \E n \in 0..Len(accounts) : InitServices /\ InitAdmissionWith(n)

\* the session pool under any callers
SpecPool == Init /\ [][NextPool]_vars
\* a batch request and the tabs of its scrapes
SpecWindows == Init /\ [][NextWindows]_vars
\* a batch and its session on the pool
SpecRelease == Init /\ [][NextRelease]_vars
\* the session pool while the module is destroyed
SpecShutdown == Init /\ [][NextShutdown]_vars
\* the account ledger under any callers
SpecSelect == Init /\ [][NextSelect]_vars
SpecHealth == Init /\ [][NextHealth]_vars
SpecLedger == Init /\ [][NextLedger]_vars
\* one request in single mode
SpecSingle == Init /\ [][NextSingle]_vars
\* one request in batch mode
SpecBatch == Init /\ [][NextBatch]_vars
\* one request of either mode
SpecOrch == Init /\ [][NextOrch]_vars
\* the tabs of scrape attempts on the session pool
SpecTabs == Init /\ [][NextTabs]_vars
\* the admission control under any callers
SpecAdmission == InitAnyConfiguration /\ [][NextAdmission]_vars
\* one extraction and the end of its attempt
SpecExtract == Init /\ [][NextExtract]_vars
\* a request in single mode and the extraction of one of its attempts
SpecScrape == Init /\ [][NextScrape]_vars
\* the result cache under any callers
SpecCache == Init /\ [][NextCache]_vars
\* a request in single mode beside the cache and the admission control
SpecCachedRequest == Init /\ [][NextCachedRequest]_vars

(***************************************************************************)
(* Properties of the session pool                                          *)
(***************************************************************************)
LaunchesInProgress(k) ==
    {i \in Instances : instState[i] = "launching" /\ instKey[i] = k}
LiveSessions(k) ==
    {i \in Instances : instState[i] = "live" /\ instKey[i] = k}
InFlight(c) == callPc[c] \in {"awaitLaunch", "awaitLaunching"}

\* C1: getBrowserForSession calls that are in flight together for one
\* session directory, none of which found a connected session, all await
\* one and the same launch (so a single launch was started for them), and
\* every call that awaited a launch returns the instance of that launch:
\* the N callers receive the same session.
C1_ConcurrentAcquireOneLaunch ==
    /\ \A c1, c2 \in Calls :
          (InFlight(c1) /\ InFlight(c2) /\ callKey[c1] = callKey[c2])
              => callJoined[c1] = callJoined[c2]
    /\ \A k \in SessionDirs :
          Cardinality({c \in Calls : callPc[c] = "awaitLaunch" /\ callKey[c] = k}) <= 1
    /\ \A c \in Calls :
          (callPc[c] = "done" /\ callJoined[c] # NoInstance)
              => (callGot[c] = callJoined[c] /\ instKey[callGot[c]] = callKey[c])

\* every call made concurrently for one directory has returned the session
\* of the only launch that was started
C1_Witness ==
    /\ nextInst = 2
    /\ \A c \in Calls :
          callPc[c] = "done" /\ callJoined[c] = 1 /\ callGot[c] = 1

\* C2: in every reachable state at most one launch is in progress for any
\* session directory.
C2_AtMostOneLaunchPerKey ==
    \A k \in SessionDirs : Cardinality(LaunchesInProgress(k)) <= 1

\* a second launch for a directory is in progress, with a waiter attached,
\* after the first session of that directory is gone
C2_Witness ==
    \E i, j \in Instances :
        /\ instState[i] = "launching" /\ Waiters(i) # {}
        /\ instKey[j] = instKey[i] /\ instState[j] = "closed"

\* C3: at any time there is at most one live session per session directory
\* and every live session is the entry recorded for its directory in
\* browserInstances (so no 'close' event and no explicit close of an older
\* session has removed the entry of a newer one).
C3_OneLiveSessionPerKeyInMap ==
    /\ \A k \in SessionDirs : Cardinality(LiveSessions(k)) <= 1
    /\ \A i \in Instances :
          instState[i] = "live" => browserInstances[instKey[i]] = i

(***************************************************************************)
(* Properties of the account ledger                                        *)
(***************************************************************************)
\* what the state file holds, as getRotationStats (line 1274) and
\* getAccountsStatus (lines 1395-1401) report it
Persisted == IF fileExists THEN file ELSE Defaults
PersistedUsage(u) == UsageOf(Persisted, u)
PersistedStatus(u) == StatusOf(Persisted, u)
PersistedUsageNext(u) == UsageOf(IF fileExists' THEN file' ELSE Defaults, u)
PersistedStatusNext(u) == StatusOf(IF fileExists' THEN file' ELSE Defaults, u)
\* position of an account in the configuration
IndexOf(u) == CHOOSE i \in 1..Len(accounts) : accounts[i] = u

\* a step that is a call of getLeastUsedAccount / of updateAccountStatus
SelectStep ==
    /\ lastCall'.op = "getLeastUsedAccount"
    /\ (lastCall' # lastCall \/ selected' # selected)
ReportStep ==
    /\ lastCall'.op = "updateAccountStatus"
    /\ reported' = reported + 1

C7_ReportTransition ==
    [][ReportStep =>
        LET u == lastCall'.user
            e == lastCall'.error
        IN  IF lastCall'.success
            THEN /\ PersistedStatusNext(u).consecutiveFailures = 0
                 /\ PersistedStatusNext(u).isActive
            ELSE /\ PersistedStatusNext(u).consecutiveFailures =
                        PersistedStatus(u).consecutiveFailures + 1
                 /\ PersistedStatusNext(u).lastFailure = now \div 1000
                 /\ PersistedStatusNext(u).failureReason =
                        (IF e = NoError \/ e = <<>> THEN UnknownError ELSE e)
    ]_vars

\* a failure was reported, one second after start, for an account that was
\* already inactive
C7_Witness ==
    /\ lastCall.op = "updateAccountStatus" /\ ~lastCall.success
    /\ PersistedStatus(lastCall.user).consecutiveFailures = 2
    /\ PersistedStatus(lastCall.user).lastFailure = 1
    /\ PersistedStatus(lastCall.user).failureReason = ErrTimeout
    /\ ~PersistedStatus(lastCall.user).isActive

ContainsKeyword(error, keywords) ==
    /\ error # NoError
    /\ \E kw \in keywords : Includes(ToLowerCase(error), kw)

LastReportFailedWith(keywords) ==
    /\ lastCall.op = "updateAccountStatus"
    /\ ~lastCall.success
    /\ ContainsKeyword(lastCall.error, keywords)

\* C9 as stated: a failure report whose reason contains challenge,
\* suspended, banned or disabled sets isActive to false immediately.
C9_CriticalKeywordDeactivates ==
    LastReportFailedWith({<<"c", "h", "a", "l", "l", "e", "n", "g", "e">>,
                          <<"s", "u", "s", "p", "e", "n", "d", "e", "d">>,
                          <<"b", "a", "n", "n", "e", "d">>,
                          <<"d", "i", "s", "a", "b", "l", "e", "d">>})
        => ~PersistedStatus(lastCall.user).isActive

\* C9 amended: a failure report whose reason contains, in any letter case,
\* challenge, inhabilitada, suspended or banned sets isActive to false
\* immediately, even when it is the account's first failure.
C9_CodeKeywordDeactivates ==
    LastReportFailedWith({<<"c", "h", "a", "l", "l", "e", "n", "g", "e">>,
                          <<"i", "n", "h", "a", "b", "i", "l", "i", "t", "a", "d", "a">>,
                          <<"s", "u", "s", "p", "e", "n", "d", "e", "d">>,
                          <<"b", "a", "n", "n", "e", "d">>})
        => ~PersistedStatus(lastCall.user).isActive

\* a first failure with a critical reason written in capitals
C9_Witness ==
    /\ LastReportFailedWith({<<"b", "a", "n", "n", "e", "d">>})
    /\ lastCall.error = ErrBanned
    /\ PersistedStatus(lastCall.user).consecutiveFailures = 1
    /\ ~PersistedStatus(lastCall.user).isActive

\* C10: the selection used for scraping never returns an account whose
\* health is inactive.
C10_SelectsOnlyActiveAccounts ==
    (lastCall.op = "getLeastUsedAccount" /\ lastCall.ret # NoAccount)
        => PersistedStatus(lastCall.ret).isActive

(***************************************************************************)
(* Properties of a request in single mode                                  *)
(***************************************************************************)
\* the accounts whose attempt failed before attempt i of the request
FailedBefore(i) ==
    {attemptLog[j].account : j \in {n \in 1..(i - 1) : attemptLog[n].outcome = "thrown"}}
\* the scrape-profile job has ended because no account was left
Exhausted == jobResult.kind = "thrown"

C12_ExhaustedIs503 ==
    /\ attempts <= totalAccounts
    /\ Len(attemptLog) <= totalAccounts
    /\ (jobState = "responded" /\ Exhausted)
           => response.status = ServiceUnavailable

\* the first two attempts of the request failed with non-critical errors
\* on accounts without earlier failures, the third succeeded on such an one
TwoFailuresThenSuccess ==
    /\ Len(attemptLog) = 3
    /\ \A i \in 1..2 : /\ attemptLog[i].outcome = "thrown"
                       /\ ~IsCriticalError(attemptLog[i].error)
    /\ attemptLog[3].outcome = "success"
    /\ \A i \in 1..3 : attemptLog[i].failuresBefore = 0

\* C13: in a single-target request where the first two least-used accounts
\* fail with non-critical errors and the third succeeds, the result is
\* success, both failed accounts end with consecutiveFailures = 1 (starting
\* from 0) and the succeeding account ends with consecutiveFailures = 0.
C13_TwoFailuresThenSuccess ==
    (jobState = "responded" /\ TwoFailuresThenSuccess) =>
        /\ response.status = Ok /\ response.success
        /\ response.results[1].scrapedWith = attemptLog[3].account
        /\ \A i \in 1..2 :
              PersistedStatus(attemptLog[i].account).consecutiveFailures = 1
        /\ PersistedStatus(attemptLog[3].account).consecutiveFailures = 0

\* the scenario has run, on accounts taken in another order than the
\* configured one
C13_Witness ==
    /\ jobState = "responded" /\ TwoFailuresThenSuccess
    /\ attemptLog[1].account = "bot_2"
    /\ attemptLog[1].error = ErrSessionInvalid

\* a step that starts the repair of account u / that advances a repair
RepairStarts(u) == repairPc[u] = "idle" /\ repairPc'[u] = "closing"
RepairAdvances == \E u \in Usernames : repairPc[u] # "idle" /\ repairPc'[u] # repairPc[u]

\* C20: session repair is fire-and-forget.  The step that starts the repair
\* of a failed account also takes the request on to its next account (or to
\* its end), without waiting for the repair; and no step of a repair,
\* however it ends, changes the request: its attempts, its result and the
\* response stay as they are.
C20_RepairFireAndForget ==
    [][ /\ \A u \in Usernames :
              RepairStarts(u) => /\ jobState' \in {"active", "failed"}
                                 /\ attemptAccount' # u
        /\ RepairAdvances =>
              UNCHANGED <<jobState, jobResult, response, failedUsernames,
                          attempts, attemptAccount, attemptLog, file>>
      ]_vars

\* the request has been answered with a success while one repair has
\* failed and another one is still running
C20_Witness ==
    /\ response.status = Ok /\ response.success
    /\ \E u, v \in Usernames :
          /\ repairResult[u] \in {"failed", "crashed"}
          /\ repairPc[v] = "verifying"

(***************************************************************************)
(* Properties of a request in batch mode, and of both modes                *)
(***************************************************************************)
\* the accounts that threw before selection i of the batch
ThrewBefore(i) ==
    {batchLog[j].account : j \in {n \in 1..(i - 1) : batchLog[n].threw}}
\* the failure reports the batch has made for account u
FailureReportsOf(u) ==
    {n \in 1..Len(batchReports) :
        batchReports[n].account = u /\ ~batchReports[n].success}
\* the outcome tells that the profile is private
IsPrivateOutcome(o) == o.error = ErrPrivate

\* C14: a private target ends in a successful-but-empty outcome (success =
\* true, posts = [], error = "Account is private"), and is not counted as a
\* failure of the bot account: no failure is reported to the ledger for it.
\* In single mode: the response carries that outcome and the account's
\* consecutiveFailures is what it was.  In batch mode: every private
\* outcome has success = true, and a failure is reported for an account
\* only if one of its targets failed for another reason than being private.
C14_PrivateIsSuccessNotFailure ==
    /\ (jobState = "responded" /\ jobResult.kind = "returned"
            /\ IsPrivateOutcome(jobResult.outcome)) =>
          /\ response.results[1].success
          /\ response.results[1].posts = <<>>
          /\ PersistedStatus(jobResult.outcome.scrapedWith).consecutiveFailures
                 = attemptLog[Len(attemptLog)].failuresBefore
    /\ \A i \in 1..Len(results) :
          IsPrivateOutcome(results[i]) =>
              results[i].success /\ results[i].posts = <<>>
    /\ \A n \in 1..Len(batchReports) :
          ~batchReports[n].success =>
              \E i \in 1..Len(batchReports[n].outcomes) :
                  /\ ~batchReports[n].outcomes[i].success
                  /\ ~IsPrivateOutcome(batchReports[n].outcomes[i])

\* the batch asked for a, b, c and the only account selected succeeded on all
OneAccountSucceedsOnAll ==
    /\ batchPc = "responded"
    /\ usernames = <<"a", "b", "c">>
    /\ Len(batchLog) = 1
    /\ Len(results) = 3
    /\ \A i \in 1..3 : results[i].success

\* C16: in a batch request with targets [a, b, c] where the selected
\* account X succeeds on all of them, all three outcomes have scrapedWith =
\* X, X's usage counter has increased by exactly 1 and no other account's
\* usage counter has changed.
C16_OneAccountForBatch ==
    OneAccountSucceedsOnAll =>
        LET X == batchLog[1].account IN
        /\ \A i \in 1..3 : /\ response.results[i].scrapedWith = X
                           /\ response.results[i].username = usernames[i]
        /\ PersistedUsage(X) = usageAtStart[X] + 1
        /\ \A u \in Usernames \ {X} : PersistedUsage(u) = usageAtStart[u]

\* the scenario has run with the account configured last, the others
\* having been used before
C16_Witness ==
    /\ OneAccountSucceedsOnAll
    /\ batchLog[1].account = "bot_3"
    /\ response.success

\* C17: when the account chosen for a batch throws, it is excluded from the
\* selections that follow and its repair is scheduled; the next account is
\* given exactly the targets that have no result yet, and no target that
\* has a result is fetched again.
C17_ThrownAccountExcluded ==
    /\ \A i \in 1..Len(batchLog) :
          /\ ThrewBefore(i) \subseteq batchLog[i].excluded
          /\ batchLog[i].account \notin batchLog[i].excluded
          /\ batchLog[i].threw =>
                \/ repairPc[batchLog[i].account] # "idle"
                \/ repairResult[batchLog[i].account] # "none"
    /\ batchAccount # NoAccount =>
          botUsernames = Slice(usernames, Len(results))
    /\ \A n \in 1..Len(fetchLog) : ~fetchLog[n].hadResult

\* the first account threw while it was the least used, and the targets
\* are being fetched with the second one
C17_Witness ==
    /\ Len(batchLog) = 2
    /\ batchLog[1].threw
    /\ batchPc = "window"
    /\ fetchLog[1].account = batchLog[2].account
    /\ PersistedUsage(batchLog[1].account) < PersistedUsage(batchLog[2].account)

\* C18: a batch request that returns gives back exactly one outcome per
\* requested target, in request order, also when accounts failed during
\* the batch.
C18_OneOutcomePerTarget ==
    (batchPc = "responded" /\ response.status = Ok) =>
        /\ Len(response.results) = Len(usernames)
        /\ \A i \in 1..Len(response.results) :
              response.results[i].username = usernames[i]

\* C19: every per-account failure during a request is recorded against the
\* failing account's health through the ledger.  In single mode: an
\* account whose attempt threw has that error as its failure reason.  In
\* batch mode: an account that threw, or whose scrape of a target threw,
\* has a failure report.
C19_FailureRecorded ==
    /\ \A i \in 1..Len(attemptLog) :
          attemptLog[i].outcome = "thrown" =>
              PersistedStatus(attemptLog[i].account).failureReason
                  = attemptLog[i].error
    /\ \A i \in 1..Len(batchLog) :
          batchLog[i].threw => FailureReportsOf(batchLog[i].account) # {}
    /\ \A i \in 1..Len(results) :
          (~results[i].success /\ ~IsPrivateOutcome(results[i]))
              => FailureReportsOf(results[i].scrapedWith) # {}

\* ---- the tab of an attempt --------------------------------------------
\* no attempt works in the tab any more
Abandoned(t) == \A c \in Calls : scrapePage[c] # t
\* every close of a session that a repair started has returned
RepairClosesOver == closePc["repairSession"] = "idle"

\* C15: every tab opened for a scrape attempt is closed in the end, whatever
\* the outcome of the attempt: once no attempt works in the tab and the
\* close of the session by the repair that a failed attempt started has
\* returned, the tab is closed (by closePage or with its context)
C15_TabClosedAfterAttempt ==
    \A t \in Tabs :
        (tabState[t] # "unused" /\ Abandoned(t) /\ RepairClosesOver)
            => ~TabIsOpen(t)

\* ---- admission control ------------------------------------------------
\* C26: after any sequence of acquire and release calls the counter of
\* active requests is between 0 and the maximum, and a release made when
\* the counter was 0 has left it at 0
C26_CounterWithinBounds ==
    /\ 0 <= activeRequests
    /\ activeRequests <= maxConcurrent
    /\ (lastAdmission.op = "release" /\ lastAdmission.before = 0)
           => activeRequests = 0

\* a release was made on a counter at zero, and acquires filled the counter
C26_Witness ==
    /\ lastAdmission.op = "release"
    /\ lastAdmission.before = 0
    /\ \E r \in Requesters : admitted[r]

\* C27: an acquire made while the counter is at or above the maximum is
\* rejected with 429 and changes nothing: the counter stays, and nothing
\* of the pool, the ledger or a request moves
C27_RejectedAcquireNoEffect ==
    [][(lastAdmission'.op = "acquire" /\ lastAdmission' # lastAdmission
            /\ activeRequests >= maxConcurrent)
        => /\ lastAdmission'.status = TooManyRequests
           /\ UNCHANGED <<activeRequests, maxConcurrent, admitted>>
           /\ UNCHANGED <<poolVars, ledgerVars, singleVars, batchVars,
                          tabVars, extractVars, cacheVars, lifecycleVars>>]_vars

\* an acquire was rejected while every slot of a maximum above one was taken
C27_Witness ==
    /\ lastAdmission.op = "acquire"
    /\ lastAdmission.status = TooManyRequests
    /\ lastAdmission.before = maxConcurrent
    /\ maxConcurrent > 1

\* ---- the result cache -------------------------------------------------
\* the keys that hold an entry for the username in any letter case
StoredFor(username) ==
    {k \in CacheKeys : cache[k] # NoEntry /\ ToLowerCase(k) = ToLowerCase(username)}
Fresh(k) == now - cache[k].timestamp <= TTL_MS
GetStep(username) ==
    /\ lastCache'.op = "get"
    /\ lastCache'.username = username
    /\ lastCache' # lastCache

\* C28: a get returns the outcome stored for the username, in whatever
\* letter case it was stored, as long as the entry is not older than the
\* TTL of 10 minutes, and leaves the cache as it is; for an older entry it
\* returns null and removes the entry; with no entry it returns null
C28_CacheGetWithinTtl ==
    [][\A username \in CacheNames :
          GetStep(username) =>
              IF \E k \in StoredFor(username) : Fresh(k)
              THEN /\ \E k \in StoredFor(username) :
                         Fresh(k) /\ lastCache'.returned = cache[k].result
                   /\ cache' = cache
              ELSE /\ lastCache'.returned = Null
                   /\ \A k \in StoredFor(username) : cache'[k] = NoEntry]_vars

\* a get in another letter case than the key returned the outcome of an
\* entry that is exactly as old as the TTL
C28_Witness ==
    /\ lastCache.op = "get"
    /\ lastCache.returned # Null
    /\ lastCache.username # ToLowerCase(lastCache.username)
    /\ now - cache[ToLowerCase(lastCache.username)].timestamp = TTL_MS

\* ---- cache and admission before the orchestrator ------------------------
\* the cache would answer a get for the target
CacheHit(username) ==
    /\ cache[Key(username)] # NoEntry
    /\ ~Expired(now - cache[Key(username)].timestamp)
\* the request is handed to the orchestrator
OrchestratorInvoked == jobState = "none" /\ jobState' = "waiting"

\* C29: a request for a target whose cached result is inside the TTL is
\* answered from the cache and never reaches the orchestrator; a request
\* that reaches the orchestrator has found no valid entry and has acquired
\* an admission slot
C29_CacheBeforeOrchestrator ==
    [][OrchestratorInvoked =>
          /\ ~CacheHit(TargetName)
          /\ activeRequests' = activeRequests + 1]_vars

\* ---- reuse of a live session --------------------------------------------
\* call c of getBrowserForSession for directory k is made in this step
AcquireStep(c, k) ==
    callPc[c] = "idle" /\ callPc'[c] # "idle" /\ callKey'[c] = k
\* the map holds a session for k whose browser is connected
LiveEntry(k) ==
    browserInstances[k] # NoInstance /\ instState[browserInstances[k]] = "live"

RECURSIVE Flatten(_)
Flatten(responses) ==
    IF responses = <<>> THEN <<>>
    ELSE Head(responses) \o Flatten(Tail(responses))
\* the captured nodes, in the order of arrival
Captured == Flatten(graphqlResponses)
\* the ids of the captured nodes that have an id and a code
ValidIds ==
    {Captured[i].id : i \in {j \in 1..Len(Captured) :
                                 Captured[j].id # "" /\ Captured[j].code # ""}}
IdsOf(posts) == {posts[i].id : i \in 1..Len(posts)}
\* the payloads at positions a and b hold a node of the same id
Overlap(a, b) ==
    \E i \in 1..Len(graphqlResponses[a]), j \in 1..Len(graphqlResponses[b]) :
        /\ graphqlResponses[a][i].id = graphqlResponses[b][j].id
        /\ graphqlResponses[a][i].id \in ValidIds

\* C21: whatever ids the captured payloads share, the list that the
\* extraction returns holds no id twice, holds only ids of captured nodes,
\* and holds every captured id once when the limit does not cut the list
C21_EachIdOnce ==
    extracted.made =>
        /\ \A i, j \in 1..Len(extracted.posts) :
              i # j => extracted.posts[i].id # extracted.posts[j].id
        /\ IdsOf(extracted.posts) \subseteq ValidIds
        /\ Cardinality(ValidIds) <= limit => IdsOf(extracted.posts) = ValidIds

\* two payloads with a common id were captured and the id is in the result
C21_Witness ==
    /\ extracted.made
    /\ Len(graphqlResponses) = 2
    /\ Overlap(1, 2)
    /\ \E i \in 1..Len(graphqlResponses[1]) :
          graphqlResponses[1][i].id \in IdsOf(extracted.posts)
    /\ Len(extracted.posts) >= 2

\* the posts before the sort: deduplicated, in the order of arrival
Deduplicated == CollectResponses(graphqlResponses, <<>>, {})
Min(a, b) == IF a < b THEN a ELSE b
\* the posts returned are the `lim` most recent of the deduplicated ones
MostRecent(posts, lim) ==
    /\ Len(posts) = Min(lim, Len(Deduplicated))
    /\ IdsOf(posts) \subseteq IdsOf(Deduplicated)
    /\ \A i \in 1..Len(posts), j \in 1..Len(Deduplicated) :
          Deduplicated[j].id \notin IdsOf(posts)
              => posts[i].createdAt >= Deduplicated[j].createdAt

\* C22 as stated: the posts returned are sorted by createdAt strictly
\* descending and are the L most recent of the deduplicated posts.
C22_StrictlyDescendingMostRecent ==
    extracted.made =>
        /\ \A i, j \in 1..Len(extracted.posts) :
              i < j => extracted.posts[i].createdAt > extracted.posts[j].createdAt
        /\ MostRecent(extracted.posts, limit)

\* C22: the posts returned are sorted by createdAt descending, posts of
\* equal createdAt next to each other, and they are the L most recent of
\* the deduplicated posts, whatever the order of arrival
C22_DescendingMostRecent ==
    extracted.made =>
        /\ \A i, j \in 1..Len(extracted.posts) :
              i < j => extracted.posts[i].createdAt >= extracted.posts[j].createdAt
        /\ MostRecent(extracted.posts, limit)

\* the limit cut the list, and the posts kept are not the first to arrive
C22_Witness ==
    /\ extracted.made
    /\ Len(Deduplicated) > limit
    /\ extracted.posts # SliceTo(Deduplicated, 0, limit)
    /\ IdsOf(extracted.posts) # IdsOf(SliceTo(Deduplicated, 0, limit))

\* ---- the scroll loop ----------------------------------------------------
\* a scroll is only started below the limit, the counters stay within
\* their thresholds, and the number of scrolls is bounded by the limit
LoopBounded ==
    /\ extractPc = "scroll" => lastPostCount < limit
    /\ noNewPostsCount <= STALE_SCROLL_THRESHOLD
    /\ stopped = "stale" => noNewPostsCount = STALE_SCROLL_THRESHOLD
    /\ stopped = "limit" => EdgeCount(graphqlResponses) >= limit
    /\ scrollAttempts <= STALE_SCROLL_THRESHOLD * limit

\* C23: the scroll loop ends on every execution: no scroll is started once
\* the captured edges reach the limit, the number of scrolls is bounded,
\* and when the loop is left for staleness the stale counter is at its
\* threshold, which is after 5 scrolls in a row that brought no new data
C23_ScrollLoopTerminates ==
    /\ LoopBounded
    /\ stopped = "stale" => staleScrolls = STALE_SCROLL_THRESHOLD

\* ---- date filter --------------------------------------------------------
\* the threshold of the call that built the outcome: in batch mode the
\* entry of the target in the map when there is one, else the createdAt
\* of the request
ThresholdOf(outcome) ==
    IF outcome.mode = "batch" /\ Target \in DOMAIN outcome.createdAtMap
    THEN Some(outcome.createdAtMap[Target])
    ELSE outcome.createdAt
\* the posts of the extraction that are more recent than t, in their order
MoreRecentThan(t) == SelectSeq(extracted.posts, LAMBDA p : p.createdAt > t)

NeverCaptured == extracted.made /\ graphqlResponses = <<>>

\* the ledger's record of account u
LedgerStatus(u) == StatusOf(ReadRotationState(file, fileExists), u)

\* C24: an attempt whose extraction captured no timeline payload raises no
\* error: the extraction returns an empty list with graphqlCaptured false,
\* the account of the attempt is neither excluded nor repaired, and once
\* the attempt has returned the job holds a successful outcome with no
\* posts from that account and the ledger holds no failure for it
C24_NeverCapturedIsSuccess ==
    NeverCaptured =>
        /\ extractPc = "extracted"
        /\ extracted.posts = <<>>
        /\ ~extracted.graphqlCaptured
        /\ attemptAccount \in Usernames
        /\ attemptAccount \notin Excluded(failedUsernames)
        /\ repairPc[attemptAccount] = "idle"
        /\ repairResult[attemptAccount] = "none"
        /\ jobState \in {"active", "completed", "responded"}
        /\ jobState \in {"completed", "responded"} =>
              /\ jobResult.kind = "returned"
              /\ jobResult.outcome.success
              /\ jobResult.outcome.posts = <<>>
              /\ jobResult.outcome.scrapedWith = attemptAccount
              /\ attemptLog[Len(attemptLog)].outcome = "success"
              /\ LedgerStatus(attemptAccount).consecutiveFailures = 0
              /\ LedgerStatus(attemptAccount).failureReason = NullReason
              /\ LedgerStatus(attemptAccount).isActive

\* the second account of the request captured nothing, after the first
\* had failed, and the caller got the 200 with the empty outcome
C24_Witness ==
    /\ NeverCaptured
    /\ jobState = "responded"
    /\ response.status = Ok
    /\ response.success
    /\ Len(attemptLog) = 2
    /\ scrollAttempts > 0


\* ---- a launch that fails ---------------------------------------------------
\* the calls that awaited launch i and have not returned to their caller
JoinedTo(i) == {c \in Calls : callJoined[c] = i}

\* C31: when a launch has failed, the call that started it and every call
\* that waited for it fail with the error of that launch (the waiters as
\* soon as their continuation has run), the failed launch is recorded as
\* the session of no directory, and once the continuations have run the
\* registry of launches in progress holds no launch that is over, so no
\* later call waits for it: a call that waits, waits for a launch still in
\* progress
C31_FailedLaunchLeavesNothing ==
    /\ \A c \in Calls :
          callPc[c] = "failed" =>
              /\ callJoined[c] # NoInstance
              /\ instState[callJoined[c]] = "failed"
              /\ instKey[callJoined[c]] = callKey[c]
              /\ callGot[c] = NoInstance
    /\ \A i \in Instances :
          instState[i] = "failed" =>
              /\ \A c \in JoinedTo(i) : callPc[c] = "failed" \/ c \in microtasks
              /\ \A k \in SessionDirs : browserInstances[k] # i
              /\ \A k \in SessionDirs : launchingInstances[k] # i
    /\ microtasks = {} =>
          /\ \A k \in SessionDirs :
                launchingInstances[k] # NoInstance =>
                    instState[launchingInstances[k]] = "launching"
          /\ \A c \in Calls :
                InFlight(c) => instState[callJoined[c]] = "launching"

\* the launch for a directory failed, a call failed with it, and a
\* later call for the same directory has started a new launch
C31_Witness ==
    /\ instState[1] = "failed"
    /\ instState[2] = "launching"
    /\ instKey[2] = instKey[1]
    /\ launchingInstances[instKey[1]] = 2
    /\ \E c \in Calls : callPc[c] = "failed" /\ callJoined[c] = 1
    /\ \E c \in Calls : callPc[c] = "awaitLaunch" /\ callJoined[c] = 2


\* ---- shutdown --------------------------------------------------------------
\* C32: once onModuleDestroy has completed, no session is live and the map
\* of sessions is empty, also for a session whose launch was in flight
\* when it started
C32_ShutdownClosesEverySession ==
    (shutdownPc = "done" /\ microtasks = {}) =>
        /\ \A i \in Instances : instState[i] # "live"
        /\ \A k \in SessionDirs : browserInstances[k] = NoInstance


OpenTabs == {n \in Targets : windowTabs[n] = "open"}
\* the targets of the account whose scrape has been started
StartedTargets == {n \in Targets : n <= Len(fetchLog)}
\* the targets of the account whose scrape has produced its outcome
ProducedTargets ==
    {n \in Targets : n <= Len(botResults)}
        \cup (IF batchPc = "window"
              THEN {AbsoluteIndex(k) : k \in (1..Len(scrapePromises)) \ Running}
              ELSE {})

BatchCloseReturns ==
    \/ /\ batchPhase = "closing"
       /\ closePc["processBatchWithBot"] = "awaitClose"
       /\ closePc'["processBatchWithBot"] = "idle"
    \/ /\ batchPhase = "working"
       /\ batchPhase' = "returned"

\* C35: when the close that ends the work of an account on its targets
\* returns, the session the account worked in is closed and the map holds
\* no session for its directory
C35_SessionReleasedAfterBatch ==
    [][BatchCloseReturns =>
          /\ instState'[batchHeld] # "live"
          /\ browserInstances'[batchDir] = NoInstance]_vars

\* scrapePostsFromPage has returned or thrown
ExtractionEnded == extractPc \in {"extracted", "returned", "thrown"}

\* C36: when an extraction has ended, by its return or by an error thrown
\* by the reload or by a scroll, the response handler it attached is no
\* longer attached to the page.
C36_ObserverAlwaysDeregistered ==
    ExtractionEnded => responseListeners = {}

\* C37: every payload the response handler retained has at least one
\* timeline edge, and what the extraction returns has graphqlCaptured true
\* exactly when a payload with at least one edge was retained.
C37_OnlyPayloadsWithEdgesCaptured ==
    /\ \A i \in 1..Len(graphqlResponses) : Len(graphqlResponses[i]) > 0
    /\ extracted.made =>
          (extracted.graphqlCaptured <=>
              \E i \in 1..Len(graphqlResponses) : Len(graphqlResponses[i]) > 0)

\* C38: an extraction whose loop was left because the count of captured
\* edges reached the limit returns exactly `limit` posts.
C38_LimitStopReturnsLimitPosts ==
    (extracted.made /\ stopped = "limit") =>
        Len(extracted.posts) = limit

\* ---- sessions and tabs shared by attempts in flight --------------------
\* closeBrowserForSession, called by `d`, reaches context.close() in this
\* step (browser.service.ts lines 222-225)
SessionCloseStarts(d) ==
    closePc[d] = "idle" /\ closePc'[d] = "awaitClose"

\* C39: when the end of a batch or a repair closes a session, no attempt
\* in flight has an open tab in the context that is closed, the context
\* being still there.
C39_NoCloseUnderOpenTab ==
    [][\A d \in CloseCalls :
          SessionCloseStarts(d) =>
              \A c \in Calls :
                  (/\ scrapePage'[c] # NoTab
                   /\ tabState'[scrapePage'[c]] = "open"
                   /\ instState'[tabInst'[scrapePage'[c]]] = "live")
                      => tabInst'[scrapePage'[c]] # closeInst'[d]]_vars

\* C40: two attempts in flight never hold the same tab: each attempt that
\* has a tab has one that no other attempt holds.
C40_OwnTabPerAttempt ==
    \A c1, c2 \in Calls :
        (c1 # c2 /\ scrapePage[c1] # NoTab)
            => scrapePage[c1] # scrapePage[c2]

=============================================================================
